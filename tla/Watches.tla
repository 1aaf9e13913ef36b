------------------------------ MODULE Watches -------------------------------
(***************************************************************************)
(* What makes a pass start.  In ArgoCDReconciler a pass may start whenever *)
(* none is running; here it needs an entry in the work queue.  The entry   *)
(* comes from a watch (the resource, the ProviderConfig, a Secret for      *)
(* which IsReferencedSecret holds), from the result or the error of a      *)
(* pass, from a restart, or from the framework's poll, which may come but  *)
(* is not relied on: fairness does not include it, so what a property      *)
(* without a premise about the queue says is due to watches and results.   *)
(* The API server's notification and the requeue delays are immediate.     *)
(***************************************************************************)
EXTENDS ArgoCDReconciler

VARIABLE queued  \* the work queue holds the resource

watchVars == <<vars, queued>>

-----------------------------------------------------------------------------
\* Mutant: the image pull secrets in the values are not looked at.
ReferencedByField(n) ==
  \/ \E v \in Versions : config.versions[v] # None /\ n = config.versions[v].secret
  \/ config.reloader # None /\ n = config.reloader.secret

\* Any version counts, also one no tenant asks for; the CA bundle does not.
versionReferencesSecret(offer, n) == n = offer.secret \/ n \in offer.image

IsReferencedSecret(n) ==
  \/ \E v \in Versions :
       config.versions[v] # None /\ versionReferencesSecret(config.versions[v], n)
  \/ config.reloader # None /\ n = config.reloader.secret

Notified ==
  \/ cr' # "absent" /\ <<cr, spec, annotation>>' # <<cr, spec, annotation>>
  \/ config' # config
  \/ \E n \in Names : source'[n] # source[n] /\ IsReferencedSecret(n)

\* Mutant: waiting for readiness or for the endpoint does not requeue.
ConcludedUnlessFailed ==
  pass.path = "create" /\ \/ pass.report.phase \in {"Ready", "Progressing"}
                          \/ pass.report.reason \in {"InvalidVersion", "InvalidExposure"}

\* The handlers return an empty result and no error: the resource is Ready or
\* asks for what no retry can give.
Concluded ==
  pass.path = "create" /\ \/ pass.report.phase = "Ready"
                          \/ pass.report.reason \in {"InvalidVersion", "InvalidExposure"}

\* An error queues the resource again; the Reloader's are not returned.  A
\* restarted controller lists, and so queues, every resource.
Retried == \/ CallFails /\ ~Swallowed
           \/ Crash
           \/ pc = "report" /\ pc' = "idle" /\ ~Concluded

Starts == pc = "idle" /\ pc' # "idle"

Queue ==
  /\ Starts => queued
  /\ queued' = IF Starts THEN FALSE ELSE queued \/ Notified \/ Retried

\* CreateOrUpdate returns at once.
Skip ==
  /\ pc = "idle" /\ cr = "live" /\ ~Reconciles(annotation)
  /\ queued /\ queued' = FALSE
  /\ UNCHANGED vars

Poll ==
  /\ cr # "absent" /\ ~queued /\ queued' = TRUE
  /\ UNCHANGED vars

-----------------------------------------------------------------------------
WatchInit == Init /\ queued = TRUE

WatchNext == (Next /\ Queue) \/ Skip \/ Poll

\* The work queue hands out what it holds and the pass goes on; the others as
\* in ArgoCDReconciler.
Watched(A) == A /\ UNCHANGED passVars /\ Witness /\ Queue

WatchFairness ==
  /\ WF_watchVars(Work /\ Witness /\ Queue)
  /\ WF_watchVars(Skip)
  /\ WF_watchVars(Watched(AddFinalizer))
  /\ WF_watchVars(Watched(FluxWorks))
  /\ WF_watchVars(Watched(GardenerActs))

WatchSpec == WatchInit /\ [][WatchNext]_watchVars /\ WatchFairness

-----------------------------------------------------------------------------
(* What the controller leaves behind when it has nothing more to do. *)

Quiet == cr # "absent" /\ pc = "idle" /\ ~queued

\* Argo CD's Flux objects ask for what spec and configuration say now, but for
\* the CA bundle's contents, which are not watched.
DeclaredAsRequested ==
  /\ Requested # None /\ repo[Argo] # None /\ release[Argo] # None
  /\ repo[Argo].spec = [chart |-> Requested.chart, secret |-> Requested.secret, ca |-> config.ca]
  /\ LET asked == release[Argo].spec IN
       /\ asked.values = Requested.chart /\ asked.host = spec.host /\ asked.ns = spec.ns
       /\ asked.vault = (config.vault /\ spec.vault)
       /\ asked.reload = (spec.host # None /\ config.reloader # None)

\* With no pass running and nothing queued, and no poll relied on, no deletion is
\* pending, and the resource is ignored, Ready for the spec and the configuration
\* as they are now, or rejected for what they are now: no edit, error or restart
\* that came in the middle of a pass is forgotten ("retrying without a spec change
\* would be futile", CreateOrUpdate).
QuietIsAnswered ==
  Quiet =>
    /\ cr = "live"
    /\ \/ annotation = "ignore"
       \/ status.phase = "Ready" /\ status.endpoint = spec.host /\ DeclaredAsRequested
       \/ status.reason = "InvalidVersion" /\ Requested = None
       \/ status.reason = "InvalidExposure" /\ Requested # None /\ spec.host \in BadHosts

-----------------------------------------------------------------------------
(* EventuallyReady and EventuallyGone are checked under this specification,  *)
(* too, hence without polls.                                                 *)

InSync(place, k) ==
  /\ Marked(place, Mark(k)) = Named(Requested, config, k)
  /\ \A n \in Named(Requested, config, k) : secrets[<<place, n>>].data = source[n]

\* The replicas of pull secrets follow their sources and the configuration by
\* the watches alone: a rotated credential or a changed list reaches the
\* clusters without waiting for a poll (IsReferencedSecret: "so that changes to
\* it trigger reconciliation").
PullSecretsFollow ==
  <>[](Settled /\ Installable) => <>[](InSync(spec.ns, "image") /\ InSync(Tenant, "chart"))

\* A quiet resource that is Ready has the pull secrets its sources hold now: no
\* rotation and no changed list is missed by a pass that had just read the old
\* one (CreateOrUpdate reads all of them again, IsReferencedSecret queues it).
QuietIsCopied ==
  Quiet /\ annotation # "ignore" /\ status.phase = "Ready" =>
    InSync(spec.ns, "image") /\ InSync(Tenant, "chart")

\* A poll queues the resource unless it is queued already.
Polls == []<>queued

\* The CA bundle is not watched; with polls its replica follows too, so that what
\* OCIRepositories refer to becomes the bundle as it is now ("the bundle is
\* propagated to all Flux OCIRepository resources", CABundleSecret).
BundleFollowsPolls ==
  <>[](Settled /\ Installable) /\ Polls => <>[]InSync(Tenant, "ca")

\* The addon is installed as configured, or gone, whatever its failures, which
\* nobody retries, and whenever it was switched on while its old objects were
\* still being deleted (reconcileReloader): the next poll mends it.
AddonInstalled ==
  IF config.reloader = None
  THEN repo[Reloader] = None /\ release[Reloader] = None /\ deployed[Reloader] = None
  ELSE deployed[Reloader] # None /\ deployed[Reloader].values = config.reloader.chart

AddonFollowsPolls ==
  <>[](Settled /\ Installable) /\ Polls => <>[]AddonInstalled

\* Everything but the CA bundle is watched.
BundleUsable == config.ca # None => source[config.ca] \notin BadCerts \union {None}

\* A request that cannot be met is reported as Failed for good, without polls
\* unless the CA bundle is what is wrong: the watches notice what stops being
\* acceptable after the resource was Ready, and the errors bring it back.
RejectedEventually ==
  <>[](Settled /\ ~Installable /\ BundleUsable) => <>[](status.phase = "Failed")

\* With polls every request that cannot be met ends as Failed, the CA bundle's
\* failures included (reconcileCABundle, caBundleFragment).
RejectedByPolls ==
  <>[](Settled /\ ~Installable) /\ Polls => <>[](status.phase = "Failed")

=============================================================================
