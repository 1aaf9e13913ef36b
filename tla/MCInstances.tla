---------------------------- MODULE MCInstances -----------------------------
(***************************************************************************)
(* The specs, ProviderConfigs and Secrets of the small instances.          *)
(***************************************************************************)
EXTENDS Clusters

CONSTANTS v1, v2, c1, c2, r1, h1, h2, hBad, n1, n2, img, chartA, chartB, bundle, own,
          d1, d2, garbage

Asks(v, h, n, vault) == [version |-> v, host |-> h, ns |-> n, vault |-> vault]
Config(offer, reloader, ca, vault) ==
  [versions |-> [v \in Versions |-> IF v = v1 THEN offer ELSE None],
   reloader |-> reloader, ca |-> ca, vault |-> vault]
Entry(chart, image, secret, registry) ==
  [chart |-> chart, image |-> image, secret |-> secret, registry |-> registry]
WithReloader(secret) == [chart |-> r1, secret |-> secret]
\* Every Secret holds d1, except that name holds data.
Holding(name, data) == [n \in Names |-> IF n = name THEN data ELSE d1]
AllHeld == {Holding(None, d1)}

-----------------------------------------------------------------------------
\* Lifecycle: one namespace, no exposure; the operator switches chart, pull
\* secrets, Reloader and CA bundle on and off together.
PlainSpecs == {Asks(v1, None, n1, FALSE)}
LifecycleConfigs == {Config(Entry(c1, {img}, chartA, TRUE), None, None, FALSE),
                     Config(Entry(c2, {}, chartB, TRUE), WithReloader(chartA), bundle, FALSE)}

-----------------------------------------------------------------------------
ExposureSpecs == {Asks(v1, None, n1, FALSE), Asks(v1, h1, n1, FALSE)}
\* Exposure: off, on, and under another name.
HostSpecs == ExposureSpecs \union {Asks(v1, h2, n1, FALSE)}
SimpleConfigs == {Config(Entry(c1, {}, None, TRUE), None, None, FALSE)}

\* Convergence: chart, Reloader and CA bundle changed; two Secrets are
\* rotated, of which the second configuration uses the CA bundle only.
ConvergenceConfigs == {Config(Entry(c1, {img}, chartA, TRUE), WithReloader(None), None, FALSE),
                       Config(Entry(c2, {}, None, TRUE), None, bundle, FALSE)}
Rotations == AllHeld \union {[n \in Names |-> IF n = chartA THEN d1 ELSE d2]}

\* Outcomes: with and without exposure; a bad host, a version that is not
\* offered, no chart URL, the vault plugin without its image repository, an
\* unreadable bundle, a missing Secret.
OutcomeSpecs == {Asks(v1, None, n1, FALSE), Asks(v1, h1, n1, TRUE), Asks(v1, hBad, n1, FALSE)}
OutcomeConfigs == {Config(Entry(c1, {}, chartA, TRUE), WithReloader(None), bundle, TRUE),
                   Config(Entry(c2, {}, None, FALSE), None, None, TRUE),
                   Config(Entry(None, {}, None, TRUE), None, None, FALSE),
                   Config(None, None, None, FALSE)}
OutcomeSources == AllHeld \union {Holding(chartA, None), Holding(bundle, garbage)}

-----------------------------------------------------------------------------
\* A Secret somebody made in the tenant namespace.
OwnSecret == {<<Tenant, own>>}
AdoptedSecret == {<<Tenant, chartA>>}

\* The target namespace is moved.
MovedSpecs == {Asks(v1, None, n1, FALSE), Asks(v1, None, n2, FALSE)}

PullSecretConfigs == {Config(Entry(c1, {}, chartA, TRUE), None, None, FALSE),
                      Config(Entry(c1, {}, None, TRUE), None, None, FALSE)}

=============================================================================
