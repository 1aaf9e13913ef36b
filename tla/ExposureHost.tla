---------------------------- MODULE ExposureHost ----------------------------
(***************************************************************************)
(* internal/controller: the exposure host, from the tenant's request to a  *)
(* fully-qualified name.  A name is the sequence of its labels, the empty  *)
(* string the sequence of one empty label.  An apiserver address is        *)
(* [scheme, labels, port]: whether it is a URL and whether it names a      *)
(* port.                                                                   *)
(***************************************************************************)
EXTENDS Naturals, Sequences

CONSTANTS
  WellFormed,   \* the labels hostPattern accepts
  LabelLength,  \* the length of every label
  Ported        \* a label with ":<port>" appended

Names == Seq(STRING) \ {<<>>}

\* An address is made of well-formed labels, or empty.  Without a scheme its port
\* is part of the last one (Hostname), whatever that makes of it.
Addresses ==
  {a \in [scheme : BOOLEAN, labels : Names, port : BOOLEAN] :
     /\ a.labels = <<"">> \/ \A i \in 1..Len(a.labels) : a.labels[i] \in WellFormed
     /\ a.port /\ ~a.scheme => Ported[a.labels[Len(a.labels)]] \in STRING}

NameLength(name) ==
  LET sum[i \in 0..Len(name)] == IF i = 0 THEN 0 ELSE sum[i - 1] + LabelLength[name[i]]
  IN sum[Len(name)] + Len(name) - 1

hostPattern(name) == \A i \in 1..Len(name) : name[i] \in WellFormed

\* url.Hostname strips the port of a URL; without a scheme it is empty and the
\* address is taken as it stands.
Hostname(address) ==
  IF address.scheme \/ ~address.port THEN address.labels
  ELSE [address.labels EXCEPT ![Len(address.labels)] = Ported[@]]

Derivable(address) ==
  /\ address.labels # <<"">>
  /\ Len(Hostname(address)) >= 3 /\ Hostname(address)[1] = "api"

deriveRootDomain(address) == Tail(Hostname(address))

\* TrimSuffix(".")
Trimmed(host) ==
  IF Len(host) > 1 /\ host[Len(host)] = "" THEN SubSeq(host, 1, Len(host) - 1) ELSE host

Composable(host, address) == Len(Trimmed(host)) > 1 \/ Derivable(address)

composeHost(host, address) ==
  IF Len(Trimmed(host)) > 1 THEN Trimmed(host) ELSE Trimmed(host) \o deriveRootDomain(address)

\* Mutant: the length of the request instead of the resolved name.
ShortAsRequested(host, address) == NameLength(host) <= 253

ShortEnough(host, address) == NameLength(composeHost(host, address)) <= 253

\* allowedIPs: whether each entry parses as a CIDR range.
validateExposure(host, cidrs, address) ==
  /\ host # <<"">> /\ hostPattern(host)
  /\ \A i \in 1..Len(cidrs) : cidrs[i] # "malformed"
  /\ Composable(host, address) /\ ShortEnough(host, address)

\* resolveExposure ignores composeHost's error and keeps the bare label.
ResolvedHost(host, address) ==
  IF Composable(host, address) THEN composeHost(host, address) ELSE host

=============================================================================
