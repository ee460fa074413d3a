---------------------------- MODULE ConnectionCap ----------------------------
(***************************************************************************)
(* The cap on a user's connections over all gateway processes              *)
(* (common/src/ratelimit.rs, ws.rs, state.rs): a connection enters the     *)
(* sorted set ws:conns before its process knows it, pushes the oldest out, *)
(* and tells their processes by pub/sub.  All devices are of one user; a   *)
(* step ends where the code awaits Redis.                                  *)
(***************************************************************************)
EXTENDS Naturals, Sequences, FiniteSets, SequencesExt

CONSTANTS
    Devices,     \* connection ids of one user, each used once
    MaxDevices,  \* ws_conn_max
    CapFaults    \* bound: failed Redis calls, lost kicks, deaths, slots that age out

ASSUME CapAssumption == MaxDevices \in Nat /\ CapFaults \in Nat

VARIABLES
    stage,       \* device -> where its connection task is
    registry,    \* ws:conns, oldest first
    evicting,    \* device -> devices its registration pushed out
    kicks,       \* force_disconnect events on their way
    cancelled,   \* devices whose reader was notified
    capFaults,
    missed       \* history: devices whose eviction came to nothing

capVars == <<stage, registry, evicting, kicks, cancelled, capFaults, missed>>

CapTypeOK ==
    /\ stage \in [Devices -> {"new", "registered", "told", "open", "closing", "gone"}]
    /\ registry \in Seq(Devices) /\ IsInjective(registry)
    /\ evicting \in [Devices -> SUBSET Devices]
    /\ kicks \subseteq Devices /\ cancelled \subseteq Devices /\ missed \subseteq Devices
    /\ capFaults \in 0..CapFaults

CapInit ==
    /\ stage = [d \in Devices |-> "new"]
    /\ registry = <<>>
    /\ evicting = [d \in Devices |-> {}]
    /\ kicks = {} /\ cancelled = {} /\ missed = {}
    /\ capFaults = 0

CapFault == capFaults < CapFaults /\ capFaults' = capFaults + 1

\* Mutant of Registration: one connection over the cap stays.
RegistrationLate(d) ==
    LET all == Append(registry, d)
        over == IF Len(all) > MaxDevices + 1 THEN Len(all) - MaxDevices - 1 ELSE 0
    IN [kept |-> SubSeq(all, over + 1, Len(all)), out |-> {all[i] : i \in 1..over}]

\* CONN_REGISTER_LUA: the new member goes in, the oldest go over the cap.
Registration(d) ==
    LET all == Append(registry, d)
        over == IF Len(all) > MaxDevices THEN Len(all) - MaxDevices ELSE 0
    IN [kept |-> SubSeq(all, over + 1, Len(all)), out |-> {all[i] : i \in 1..over}]

\* register_connection; on a Redis error the connection proceeds, uncounted if
\* the script did not run, and with nobody told to go if only its answer is lost.
RegisterConn(d) ==
    /\ stage[d] = "new"
    /\ stage' = [stage EXCEPT ![d] = "registered"]
    /\ \/ /\ registry' = Registration(d).kept
          /\ evicting' = [evicting EXCEPT ![d] = Registration(d).out]
          /\ UNCHANGED <<capFaults, missed>>
       \/ /\ CapFault
          /\ missed' = missed \cup {d}
          /\ UNCHANGED <<registry, evicting>>
       \/ /\ CapFault
          /\ registry' = Registration(d).kept
          /\ missed' = missed \cup Registration(d).out
          /\ UNCHANGED evicting
    /\ UNCHANGED <<kicks, cancelled>>

\* force_disconnect is published for each connection that went.
TellEvicted(d) ==
    /\ stage[d] = "registered"
    /\ stage' = [stage EXCEPT ![d] = "told"]
    /\ kicks' = kicks \cup evicting[d]
    /\ evicting' = [evicting EXCEPT ![d] = {}]
    /\ UNCHANGED <<registry, cancelled, missed, capFaults>>

\* add_conn.
AddConn(d) ==
    /\ stage[d] = "told"
    /\ stage' = [stage EXCEPT ![d] = "open"]
    /\ UNCHANGED <<registry, evicting, kicks, cancelled, missed, capFaults>>

Open == {d \in Devices : stage[d] = "open"}

\* AppState::force_disconnect: the connection is notified if it is known.
Kick(d) ==
    /\ d \in kicks
    /\ kicks' = kicks \ {d}
    /\ cancelled' = IF d \in Open THEN cancelled \cup {d} ELSE cancelled
    /\ missed' = IF d \in Open THEN missed ELSE missed \cup {d}
    /\ UNCHANGED <<stage, registry, evicting, capFaults>>

\* A failed PUBLISH is ignored, and an inbox has no listener while the fan-in
\* subscribes again: the connection stays, without a slot.
LoseKick(d) ==
    /\ d \in kicks
    /\ CapFault
    /\ kicks' = kicks \ {d}
    /\ missed' = missed \cup {d}
    /\ UNCHANGED <<stage, registry, evicting, cancelled>>

\* The slot of a connection older than ws_conn_max_age is swept.
Age(d) ==
    /\ stage[d] = "open" /\ d \in ToSet(registry)
    /\ CapFault
    /\ registry' = RemoveFirst(registry, d)
    /\ missed' = missed \cup {d}
    /\ UNCHANGED <<stage, evicting, kicks, cancelled>>

\* The read loop ends, by the client or by the notification: remove_conn.
Disconnect(d) ==
    /\ stage[d] = "open"
    /\ stage' = [stage EXCEPT ![d] = "closing"]
    /\ UNCHANGED <<registry, evicting, kicks, cancelled, missed, capFaults>>

\* unregister_connection, whose failure leaves the slot to the sweep.
Unregister(d) ==
    /\ stage[d] = "closing"
    /\ stage' = [stage EXCEPT ![d] = "gone"]
    /\ \/ registry' = RemoveFirst(registry, d) /\ UNCHANGED capFaults
       \/ CapFault /\ UNCHANGED registry
    /\ UNCHANGED <<evicting, kicks, cancelled, missed>>

\* A gateway process dies with its connections D; their slots wait for the
\* sweep, and whom they pushed out is not told.
GatewayDies(D) ==
    /\ D # {} /\ \A d \in D : stage[d] \notin {"new", "gone"}
    /\ CapFault
    /\ stage' = [d \in Devices |-> IF d \in D THEN "gone" ELSE stage[d]]
    /\ evicting' = [d \in Devices |-> IF d \in D THEN {} ELSE evicting[d]]
    /\ missed' = missed \cup UNION {evicting[d] : d \in D}
    /\ UNCHANGED <<registry, kicks, cancelled>>

CapNext ==
    \/ \E d \in Devices :
        \/ RegisterConn(d) \/ TellEvicted(d) \/ AddConn(d)
        \/ Kick(d) \/ LoseKick(d) \/ Age(d) \/ Disconnect(d) \/ Unregister(d)
    \/ \E D \in SUBSET Devices : GatewayDies(D)

CapSpec == CapInit /\ [][CapNext]_capVars

-----------------------------------------------------------------------------
\* A user has no more than ws_conn_max connections beside those already told
\* or about to be told to go; a connection may escape only if its
\* registration failed or aged out, the order to go was lost, on its way or
\* with the process that was to give it, or found the connection not yet in its
\* process's table.
CapHolds ==
    Cardinality({d \in Open : /\ d \notin kicks \cup cancelled \cup missed
                              /\ \A e \in Devices : d \notin evicting[e]}) <= MaxDevices

=============================================================================
