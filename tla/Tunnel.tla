------------------------------- MODULE Tunnel -------------------------------
(***************************************************************************)
(* The public endpoints of a server that manages its own tunnels           *)
(* (src/app/tunnel_lifecycle.rs, tunnel_policy.rs, the event loop of       *)
(* src/app/mod.rs, the registry of src/integrations/auth/origin.rs).       *)
(* Workers start providers, register the address of each tunnel that came  *)
(* up and send it to the loop.  The loop adopts tunnels, probes them,      *)
(* buries the ones whose process exited and recycles the ones that stay    *)
(* unreachable; it waits for a process to stop between two of its steps,   *)
(* and the workers go on meanwhile.                                        *)
(*                                                                         *)
(* Only the equality of epochs matters, so a new epoch is one that nothing *)
(* around still carries.  Time is left out: a probe is due, a lease is     *)
(* too old and a grace period is over at any time.                         *)
(***************************************************************************)
EXTENDS Naturals, FiniteSets

CONSTANTS
  Provider, Url, OwnerOf,  \* the providers, and the addresses of each
  Stable,                  \* the providers that keep their address: has_stable_endpoint
  HERE,                   \* the local address, which is registered for ever
  MaxRetained,             \* MAX_RETAINED_STABLE_ALIASES
  MaxEpoch,                \* bound: registrations of one address that are around together
  MaxLease,                \* bound: epochs of its leases that are around together
  MaxStarting              \* bound: attempts and failures of a provider under way

Constants ==
  /\ OwnerOf \in [Url -> Provider]
  /\ HERE \notin Url
  /\ {MaxRetained, MaxEpoch, MaxLease, MaxStarting} \subseteq Nat

VARIABLES
  registry,   \* PublicEndpoints.active: the epoch of each address, or 0
  primary,    \* PublicEndpoints.primary, the address that is displayed
  first,      \* providers the initial supervisor still tries
  starting,   \* per provider: reconnect attempts under way
  failed,     \* per provider: ReconnectFailed events under way
  coming,     \* tunnels that were registered and whose Connected is under way
  tunnels,    \* the tunnels of the loop
  epochs,     \* endpoint_epochs: the epoch under which an address was adopted, or 0
  leases,     \* endpoint_leases: the health of each address
  retained,   \* retained_stable_aliases
  pending,    \* pending_respawns
  probes,     \* probes under way, with the epoch of the lease that sent them
  loop        \* where the loop is

vars == <<registry, primary, first, starting, failed, coming, tunnels, epochs,
          leases, retained, pending, probes, loop>>

Epoch == 1..MaxEpoch
Tunnel == [url : Url, epoch : Epoch]
Probe == [url : Url, epoch : 1..MaxLease]
Lease == [epoch : 0..MaxLease, failures : 0..2, successes : 0..1, probing : BOOLEAN]
\* A lease that waits for no probe; EndpointHealthLease::verified.
Checked(f, s, e) == [epoch |-> e, failures |-> f, successes |-> s, probing |-> FALSE]
Verified(e) == Checked(0, 0, e)
NoLease == Verified(0)

\* While it is idle, the rest of the record says nothing.
Idle == [at |-> "idle", url |-> HERE, epoch |-> 0, keep |-> FALSE]
At(where, u, e, k) == [at |-> where, url |-> u, epoch |-> e, keep |-> k]

TypeOK ==
  /\ registry \in [Url -> 0..MaxEpoch]
  /\ primary \in Url \cup {HERE}
  /\ first \subseteq Provider
  /\ starting \in [Provider -> 0..MaxStarting]
  /\ failed \in [Provider -> 0..MaxStarting]
  /\ coming \subseteq Tunnel
  /\ tunnels \subseteq Tunnel
  /\ epochs \in [Url -> 0..MaxEpoch]
  /\ leases \in [Url -> Lease]
  /\ retained \subseteq Url
  /\ pending \subseteq Provider
  /\ probes \subseteq Probe
  /\ \/ loop \in {Idle, [Idle EXCEPT !.at = "maintaining"]}
     \/ loop \in [at : {"adopting"}, url : Url, epoch : Epoch, keep : {FALSE}]
     \/ loop \in [at : {"recycling", "recycled", "burying", "buried"},
                  url : Url, epoch : {0}, keep : BOOLEAN]

Init ==
  /\ registry = [u \in Url |-> 0]
  /\ primary = HERE
  /\ first = Provider
  /\ starting = [p \in Provider |-> 0]
  /\ failed = [p \in Provider |-> 0]
  /\ coming = {} /\ tunnels = {} /\ retained = {} /\ pending = {} /\ probes = {}
  /\ epochs = [u \in Url |-> 0]
  /\ leases = [u \in Url |-> NoLease]
  /\ loop = Idle

-----------------------------------------------------------------------------
\* NEXT_ENDPOINT_EPOCH and NEXT_ENDPOINT_LEASE_EPOCH: epochs nothing carries.
FreeEpochs(u) ==
  Epoch \ ({registry[u], epochs[u], loop.epoch}
           \cup {t.epoch : t \in {t \in coming \cup tunnels : t.url = u}})
FreeLeases(u) == (1..MaxLease) \ ({leases[u].epoch} \cup {t.epoch : t \in {t \in probes : t.url = u}})
AnyOf(S) == CHOOSE e \in S : TRUE

HasTunnel(p) == \E t \in tunnels : OwnerOf[t.url] = p

\* EndpointHealthLease::eligible, but for the age of the lease: it is
\* quarantined after two failures.
Eligible(u) == leases[u] # NoLease /\ leases[u].failures < 2

\* Mutant of Withdraws: the address is withdrawn whoever has registered it.
WithdrawsByUrl(u) == registry[u] # 0

\* withdraw_endpoint, unregister_if_epoch: only what was adopted is withdrawn.
Withdraws(u) == epochs[u] # 0 /\ registry[u] = epochs[u]

Withdraw(u) ==
  /\ registry' = IF Withdraws(u) THEN [registry EXCEPT ![u] = 0] ELSE registry
  /\ epochs' = [epochs EXCEPT ![u] = 0]

\* The address refresh_endpoint_display shows if those in "live" are healthy:
\* stable ones first, then the present one.
Displayed(live) ==
  LET up == {t.url : t \in tunnels} \cap live
      stable == {u \in up : OwnerOf[u] \in Stable}
      best == IF stable # {} THEN stable ELSE up
  IN IF primary \in best THEN {primary}
     ELSE IF best # {} THEN best
     ELSE IF retained \cap live # {} THEN retained \cap live
     ELSE {HERE}

\* refresh_endpoint_display and set_primary, which registers an address that
\* is not there.
Refresh ==
  \E live \in SUBSET {u \in Url : Eligible(u)} :
    \E next \in Displayed(live) :
      /\ primary' = next
      /\ IF next = primary \/ next = HERE \/ registry[next] # 0
         THEN registry' = registry
         ELSE /\ FreeEpochs(next) # {}
              /\ registry' = [registry EXCEPT ![next] = AnyOf(FreeEpochs(next))]

-----------------------------------------------------------------------------
\* A provider came up.  publish_verified_endpoint registers the address; the
\* first one becomes the primary address (spawn_initial_supervisor).
Publish(u) ==
  LET e == AnyOf(FreeEpochs(u)) IN
  /\ FreeEpochs(u) # {}
  /\ registry' = [registry EXCEPT ![u] = e]
  /\ coming' = coming \cup {[url |-> u, epoch |-> e]}

InitialConnects(u) ==
  /\ OwnerOf[u] \in first
  /\ Publish(u)
  /\ first' = first \ {OwnerOf[u]}
  /\ primary' = IF first = Provider THEN u ELSE primary
  /\ UNCHANGED <<starting, failed, tunnels, epochs, leases, retained, pending, probes, loop>>

AttemptConnects(u) ==
  /\ starting[OwnerOf[u]] > 0
  /\ Publish(u)
  /\ starting' = [starting EXCEPT ![OwnerOf[u]] = @ - 1]
  /\ UNCHANGED <<primary, first, failed, tunnels, epochs, leases, retained, pending, probes, loop>>

AttemptFails(p) ==
  /\ starting[p] > 0
  /\ failed[p] < MaxStarting
  /\ starting' = [starting EXCEPT ![p] = @ - 1]
  /\ failed' = [failed EXCEPT ![p] = @ + 1]
  /\ UNCHANGED <<registry, primary, first, coming, tunnels, epochs, leases, retained,
                 pending, probes, loop>>

-----------------------------------------------------------------------------
\* The loop takes a Connected.  One that was superseded is stopped.
TakeConnected(t) ==
  /\ loop = Idle
  /\ coming' = coming \ {t}
  /\ loop' = IF registry[t.url] = t.epoch THEN At("adopting", t.url, t.epoch, FALSE) ELSE Idle
  /\ UNCHANGED <<registry, primary, first, starting, failed, tunnels, epochs, leases,
                 retained, pending, probes>>

\* It stops the tunnels that had this address, and waits for them.
StopPrevious(t) ==
  /\ loop.at = "adopting" /\ t.url = loop.url
  /\ tunnels' = tunnels \ {t}
  /\ UNCHANGED <<registry, primary, first, starting, failed, coming, epochs, leases,
                 retained, pending, probes, loop>>

\* TunnelControlState::connected looks at the registry again.
Adopt ==
  LET u == loop.url
      connected == registry[u] = loop.epoch
  IN
  /\ loop.at = "adopting"
  /\ \A t \in tunnels : t.url # u
  /\ IF connected
     THEN /\ FreeLeases(u) # {}
          /\ retained' = retained \ {u}
          /\ epochs' = [epochs EXCEPT ![u] = loop.epoch]
          /\ pending' = pending \ {OwnerOf[u]}
          /\ leases' = [leases EXCEPT ![u] = Verified(AnyOf(FreeLeases(u)))]
          /\ tunnels' = tunnels \cup {[url |-> u, epoch |-> loop.epoch]}
     ELSE UNCHANGED <<retained, epochs, pending, leases, tunnels>>
  /\ loop' = Idle
  /\ UNCHANGED <<registry, primary, first, starting, failed, coming, probes>>

\* reconnect_failed
TakeFailure(p) ==
  /\ loop = Idle
  /\ failed[p] > 0
  /\ failed' = [failed EXCEPT ![p] = @ - 1]
  /\ pending' = IF HasTunnel(p) THEN pending ELSE pending \cup {p}
  /\ UNCHANGED <<registry, primary, first, starting, coming, tunnels, epochs, leases,
                 retained, probes, loop>>

-----------------------------------------------------------------------------
\* record_success: two in a row end a quarantine.
Healthier(lease, e) ==
  IF lease.failures = 2 /\ lease.successes = 0 THEN Checked(2, 1, e) ELSE Verified(e)

\* record_failure
Sicker(lease, e) == Checked(IF lease.failures = 2 THEN 2 ELSE lease.failures + 1, 0, e)

\* handle_endpoint_probe: an answer for an earlier lease changes nothing.
Answered(probe) == leases[probe.url].epoch = probe.epoch

ProbeSettles(probe) ==
  LET u == probe.url
      e == AnyOf(FreeLeases(u))
  IN
  /\ loop = Idle
  /\ probes' = probes \ {probe}
  /\ IF Answered(probe)
     THEN /\ FreeLeases(u) # {}
          /\ \E lease \in {Healthier(leases[u], e), Sicker(leases[u], e)} :
               leases' = [leases EXCEPT ![u] = lease]
     ELSE leases' = leases
  /\ Refresh
  /\ UNCHANGED <<first, starting, failed, coming, tunnels, epochs, retained, pending, loop>>

\* A failure after the grace of a quarantine: recycle_revoked_endpoint takes the
\* tunnel, if there is one, and waits until it has stopped.
ProbeRevokes(probe) ==
  LET u == probe.url IN
  /\ loop = Idle
  /\ Answered(probe)
  /\ leases[u].failures = 2
  /\ FreeLeases(u) # {}
  /\ \/ u \in retained
     \/ \E t \in tunnels : t.url = u
  /\ probes' = probes \ {probe}
  /\ leases' = [leases EXCEPT ![u] = Sicker(leases[u], AnyOf(FreeLeases(u)))]
  /\ tunnels' = {t \in tunnels : t.url # u}
  /\ loop' = At("recycling", u, 0, FALSE)
  /\ UNCHANGED <<registry, primary, first, starting, failed, coming, epochs, retained, pending>>

Recycle ==
  /\ loop.at = "recycling"
  /\ leases' = [leases EXCEPT ![loop.url] = NoLease]
  /\ retained' = retained \ {loop.url}
  /\ Withdraw(loop.url)
  /\ loop' = At("recycled", loop.url, 0, Withdraws(loop.url))
  /\ UNCHANGED <<primary, first, starting, failed, coming, tunnels, pending, probes>>

\* Somebody else's registration under this address is on its way to the loop,
\* so that no retry is needed.
Recycled ==
  LET p == OwnerOf[loop.url]
      withdrawn == loop.keep
      replaced == ~withdrawn /\ registry[loop.url] # 0
  IN
  /\ loop.at = "recycled"
  /\ pending' = IF replaced \/ HasTunnel(p) THEN pending ELSE pending \cup {p}
  /\ Refresh
  /\ loop' = Idle
  /\ UNCHANGED <<first, starting, failed, coming, tunnels, epochs, leases, retained, probes>>

-----------------------------------------------------------------------------
\* maintain_tunnels sends the probes that are due and starts the providers
\* whose time has come.
BeginMaintenance ==
  LET watched == {u \in {t.url : t \in tunnels} \cup retained :
                    leases[u] # NoLease /\ ~leases[u].probing /\ FreeLeases(u) # {}}
  IN
  /\ loop = Idle
  /\ \E probed \in SUBSET watched, due \in SUBSET {p \in pending : starting[p] < MaxStarting} :
       /\ leases' = [u \in Url |->
                       IF u \in probed
                       THEN [leases[u] EXCEPT !.probing = TRUE, !.epoch = AnyOf(FreeLeases(u))]
                       ELSE leases[u]]
       /\ probes' = probes \cup {[url |-> u, epoch |-> AnyOf(FreeLeases(u))] : u \in probed}
       /\ pending' = pending \ due
       /\ starting' = [p \in Provider |-> IF p \in due THEN starting[p] + 1 ELSE starting[p]]
  /\ loop' = [Idle EXCEPT !.at = "maintaining"]
  /\ UNCHANGED <<registry, primary, first, failed, coming, tunnels, epochs, retained>>

\* A process has exited.  A stable address that was healthy keeps its lease.
Bury(t) ==
  LET room == t.url \in retained \/ Cardinality(retained) < MaxRetained IN
  /\ loop.at = "maintaining"
  /\ \E young \in BOOLEAN :
       LET keep == OwnerOf[t.url] \in Stable /\ Eligible(t.url) /\ young /\ room IN
       /\ retained' = IF keep THEN retained \cup {t.url} ELSE retained
       /\ loop' = At("burying", t.url, 0, keep)
  /\ tunnels' = tunnels \ {t}
  /\ UNCHANGED <<registry, primary, first, starting, failed, coming, epochs, leases, pending, probes>>

Buried ==
  /\ loop.at = "burying"
  /\ IF loop.keep
     THEN UNCHANGED <<registry, epochs, leases>>
     ELSE /\ leases' = [leases EXCEPT ![loop.url] = NoLease]
          /\ Withdraw(loop.url)
  /\ loop' = [loop EXCEPT !.at = "buried"]
  /\ UNCHANGED <<primary, first, starting, failed, coming, tunnels, retained, pending, probes>>

\* Mutant of Replaced: the address that was kept passes for a replacement.
ReplacedOrKept == registry[loop.url] # 0

\* Whether a replacement is under way.
Replaced == ~loop.keep /\ registry[loop.url] # 0

Retry ==
  /\ loop.at = "buried"
  /\ pending' = IF Replaced THEN pending ELSE pending \cup {OwnerOf[loop.url]}
  /\ loop' = [Idle EXCEPT !.at = "maintaining"]
  /\ UNCHANGED <<registry, primary, first, starting, failed, coming, tunnels, epochs, leases,
                 retained, probes>>

EndMaintenance ==
  /\ loop.at = "maintaining"
  /\ Refresh
  /\ loop' = Idle
  /\ UNCHANGED <<first, starting, failed, coming, tunnels, epochs, leases, retained, pending, probes>>

Next ==
  \/ \E u \in Url : InitialConnects(u) \/ AttemptConnects(u)
  \/ \E p \in Provider : AttemptFails(p) \/ TakeFailure(p)
  \/ \E t \in coming : TakeConnected(t)
  \/ \E t \in tunnels : StopPrevious(t) \/ Bury(t)
  \/ Adopt
  \/ \E probe \in probes : ProbeSettles(probe) \/ ProbeRevokes(probe)
  \/ Recycle \/ Recycled
  \/ BeginMaintenance \/ Buried \/ Retry \/ EndMaintenance

Spec == Init /\ [][Next]_vars

-----------------------------------------------------------------------------
\* The Connected of this registration has not been dealt with.
Coming(u, e) ==
  \/ [url |-> u, epoch |-> e] \in coming
  \/ loop.at = "adopting" /\ loop.url = u /\ loop.epoch = e

\* The loop is about to withdraw this address.
Leaving(u) == loop.at \in {"recycling", "burying"} /\ loop.url = u

\* "No separate worker may publish an unowned alias" (app/mod.rs): an address
\* that is registered is on its way to the loop, or the loop has it.
AddressOwned(u) ==
  registry[u] # 0 =>
    \/ Coming(u, registry[u])
    \/ /\ epochs[u] = registry[u]
       /\ u \in retained \/ Leaving(u) \/ [url |-> u, epoch |-> registry[u]] \in tunnels

\* A provider has a tunnel, or there will be another attempt, or one is under way.
ProviderRemembered(p) ==
  \/ p \in first \cup pending \/ starting[p] > 0 \/ failed[p] > 0 \/ HasTunnel(p)
  \/ \E u \in Url : OwnerOf[u] = p /\ registry[u] # 0 /\ Coming(u, registry[u])
  \/ loop.at \in {"recycling", "recycled", "burying", "buried"} /\ OwnerOf[loop.url] = p

\* The loop looks after what it trusts: an address has a lease, and a lease
\* that waits for an answer will get one.
AddressWatched(u) ==
  u \in retained \/ (\E t \in tunnels : t.url = u) =>
    /\ leases[u] # NoLease
    /\ leases[u].probing => [url |-> u, epoch |-> leases[u].epoch] \in probes

\* No address that answers the public is without an owner and a watch, and no
\* provider is forgotten, whatever workers publish while the loop waits for a
\* process to stop (tunnel_lifecycle.rs).
EndpointsSupervised ==
  /\ \A u \in Url : AddressOwned(u) /\ AddressWatched(u)
  /\ \A p \in Provider : ProviderRemembered(p)

\* docs/manual/development.md:93: "Stale cleanup cannot remove a replacement's
\* Host": what the loop has not yet adopted is not withdrawn.
ReplacementsKept ==
  [][\A u \in Url : registry[u] # 0 /\ Coming(u, registry[u]) => registry'[u] # 0]_vars
=============================================================================
