----------------------------- MODULE ContactLease -----------------------------
(***************************************************************************)
(* Direct messages against the clean-up of the radio's contact list        *)
(* (modules/dm_contacts.py, the removals of modules/repeater_manager.py):  *)
(* a DM leases its recipient, finds or restores the contact on the radio   *)
(* and sends under the lease; a removal claims the key of its contact.     *)
(*                                                                         *)
(* All of them are tasks of one event loop that exchange frames with the   *)
(* radio in the order they ask for it (_serialize_command_frames); a step  *)
(* goes from one await to the next. Time is left out but for what lapses:  *)
(* a verification after two seconds, the shared list after five.           *)
(***************************************************************************)
EXTENDS Integers, FiniteSets

CONSTANTS
  Keys,        (* public keys of nodes                                      *)
  Dms,         (* direct messages                                           *)
  Removals,    (* calls that remove a contact from the radio                *)
  KeyOf,       (* the node each of them is about                            *)
  Kinds,       (* removals explored: "repeater", "companion", "by_key",     *)
               (* "stale"                                                   *)
  Restorable,  (* nodes whose stored advertisement data is complete         *)
  Limit,       (* contact_limit, the size of the radio's contact list       *)
  MaxFaults    (* bound: frames without a good answer, deadlines            *)

Tasks == Dms \cup Removals

ASSUME ContactLeaseAssumption ==
  /\ IsFiniteSet(Keys) /\ IsFiniteSet(Dms) /\ Dms \cap Removals = {}
  /\ KeyOf \in [Tasks -> Keys] /\ Restorable \subseteq Keys
  /\ Kinds \subseteq {"repeater", "companion", "by_key", "stale"}
  /\ Limit \in Nat /\ MaxFaults \in Nat

VARIABLES
  onRadio,   (* the radio's contact list                                    *)
  cache,     (* meshcore.contacts                                           *)
  verified,  (* _verified, the keys verified within two seconds             *)
  listed,    (* _snapshot                                                   *)
  hasList,   (* whether _snapshot is not None                               *)
  fresh,     (* _last_refresh is less than five seconds ago                 *)
  active,    (* _active, leases of each key                                 *)
  claims,    (* _purge_inflight_keys                                        *)
  pc,        (* what each task awaits                                       *)
  kind, own, (* kind of each removal, and whether it made the claim         *)
  ahead,     (* the tasks that each one lets go first at the radio          *)
  doubtful,  (* history: keys whose removal met another, or a fresh list    *)
  faults     (* failures so far                                             *)

lookup == <<cache, verified, listed, hasList, fresh>>
removal == <<claims, kind, own, doubtful>>
vars == <<onRadio, lookup, active, removal, pc, ahead, faults>>

DmPlaces == {"idle", "lock", "read", "tolist", "list", "toadd", "add", "confirm", "send", "end"}
RemovalPlaces == {"idle", "remove", "sleep", "relist", "end"}

(* Places where the radio has been asked for. *)
AtRadio == {"read", "list", "add", "confirm", "send", "remove", "relist"}

TypeOK ==
  /\ onRadio \subseteq Keys /\ cache \subseteq Keys /\ verified \subseteq Keys
  /\ listed \subseteq Keys /\ hasList \in BOOLEAN /\ fresh \in BOOLEAN
  /\ active \in [Keys -> Nat] /\ claims \subseteq Keys /\ doubtful \subseteq Keys
  /\ pc \in [Tasks -> DmPlaces \cup RemovalPlaces]
  /\ \A d \in Dms : pc[d] \in DmPlaces
  /\ \A p \in Removals : pc[p] \in RemovalPlaces
  /\ kind \in [Removals -> Kinds \cup {"none"}] /\ own \in [Removals -> BOOLEAN]
  /\ ahead \in [Tasks -> SUBSET Tasks]
  /\ faults \in 0..MaxFaults

(* The bot has read the contact list when it connected. *)
Init ==
  /\ onRadio \in {S \in SUBSET Keys : Cardinality(S) <= Limit}
  /\ cache = onRadio
  /\ verified = {} /\ listed = {} /\ hasList = FALSE /\ fresh = FALSE
  /\ active = [k \in Keys |-> 0] /\ claims = {} /\ doubtful = {}
  /\ pc = [t \in Tasks |-> "idle"]
  /\ kind = [p \in Removals |-> "none"] /\ own = [p \in Removals |-> FALSE]
  /\ ahead = [t \in Tasks |-> {}] /\ faults = 0

Fault == faults < MaxFaults /\ faults' = faults + 1
NoFault == UNCHANGED faults

HasRadio(t) == pc[t] \in AtRadio /\ ahead[t] = {}

Waiting == {t \in Tasks : pc[t] \in AtRadio}

(* The radio is not given back. *)
GoTo_KeepsRadio(t, place) ==
  /\ pc' = [pc EXCEPT ![t] = place]
  /\ ahead' = [ahead EXCEPT ![t] = IF place \in AtRadio THEN Waiting \ {t} ELSE {}]

(* A task goes to a place: it leaves the radio to the others, and if it     *)
(* needs it there, it lets all that wait for it go first.                   *)
GoTo(t, place) ==
  /\ pc' = [pc EXCEPT ![t] = place]
  /\ ahead' = [u \in Tasks |-> IF u # t THEN ahead[u] \ {t}
                                ELSE IF place \in AtRadio THEN Waiting \ {t} ELSE {}]

-----------------------------------------------------------------------------
(* Direct messages                                                          *)

IsInUse(k) == active[k] > 0

(* use: the lease is counted before the recipient's lock is asked for.      *)
Use(d) ==
  /\ pc[d] = "idle"
  /\ active' = [active EXCEPT ![KeyOf[d]] = @ + 1]
  /\ GoTo(d, "lock")
  /\ NoFault
  /\ UNCHANGED <<onRadio, lookup, removal>>

(* The way out of use, with the lease and the lock given back. *)
Leave(d) ==
  /\ active' = [active EXCEPT ![KeyOf[d]] = @ - 1]
  /\ GoTo(d, "end")

(* The DM goes on, to send once it has its contact. *)
GoesOn(d, place) == GoTo(d, place) /\ UNCHANGED active

(* The library's get_contacts brings its own cache up to date; whether it   *)
(* forgets contacts that are gone is left open.                             *)
Rereads == cache' \in {onRadio, cache \cup onRadio}

Cached(d) ==
  /\ cache' = cache \cup {KeyOf[d]}
  /\ verified' = verified \cup {KeyOf[d]}

(* A removal under way is not looked at. *)
Resolve_IgnoresClaims(d) ==
  /\ pc[d] = "lock"
  /\ \A e \in Dms \ {d} : KeyOf[e] = KeyOf[d] => pc[e] \in {"idle", "lock", "end"}
  /\ GoesOn(d, IF KeyOf[d] \in cache \cap verified THEN "send" ELSE "read")
  /\ NoFault
  /\ UNCHANGED <<onRadio, lookup, removal>>

(* _resolve up to its first frame, for the one DM that has the recipient's  *)
(* lock.                                                                    *)
Resolve(d) ==
  /\ pc[d] = "lock"
  /\ \A e \in Dms \ {d} : KeyOf[e] = KeyOf[d] => pc[e] \in {"idle", "lock", "end"}
  /\ \/ KeyOf[d] \in claims /\ Leave(d)
     \/ KeyOf[d] \in (cache \cap verified) \ claims /\ GoesOn(d, "send")
     \/ KeyOf[d] \notin (cache \cap verified) \cup claims /\ GoesOn(d, "read")
  /\ NoFault
  /\ UNCHANGED <<onRadio, lookup, removal>>

KeyAnswered(d) ==
  /\ pc[d] = "read" /\ HasRadio(d)
  /\ \/ KeyOf[d] \in onRadio /\ Cached(d) /\ GoesOn(d, "send")
     \/ KeyOf[d] \notin onRadio /\ GoesOn(d, "tolist") /\ UNCHANGED <<cache, verified>>
  /\ NoFault
  /\ UNCHANGED <<onRadio, listed, hasList, fresh, removal>>

(* What _resolve does with the shared list. *)
LookUp(d, list) ==
  \/ KeyOf[d] \in list /\ GoesOn(d, "send")
  \/ KeyOf[d] \in Restorable \ list /\ GoesOn(d, "toadd")
  \/ KeyOf[d] \notin Restorable \cup list /\ Leave(d)

NobodyElse(d, places) == \A e \in Dms \ {d} : pc[e] \notin places

(* _refresh: a list under five seconds old, or one that is not there        *)
(* because its refresh has failed, is not asked for again.                  *)
Refresh(d) ==
  /\ pc[d] = "tolist" /\ NobodyElse(d, {"list"})
  /\ \/ /\ fresh /\ hasList /\ LookUp(d, listed)
        /\ IF KeyOf[d] \in listed THEN Cached(d) ELSE UNCHANGED <<cache, verified>>
        /\ UNCHANGED <<hasList, fresh>>
     \/ fresh /\ ~hasList /\ Leave(d) /\ UNCHANGED <<cache, verified, hasList, fresh>>
     \/ ~fresh /\ GoesOn(d, "list") /\ hasList' = FALSE /\ fresh' = TRUE
        /\ UNCHANGED <<cache, verified>>
  /\ NoFault
  /\ UNCHANGED <<onRadio, listed, removal>>

ListAnswered(d) ==
  /\ pc[d] = "list" /\ HasRadio(d)
  /\ listed' = onRadio /\ hasList' = TRUE
  /\ Rereads
  /\ verified' = verified \cup ({KeyOf[d]} \cap onRadio)
  /\ LookUp(d, onRadio)
  /\ NoFault
  /\ UNCHANGED <<onRadio, fresh, removal>>

(* One restoration at a time, and none beyond the radio's capacity. *)
Restore(d) ==
  /\ pc[d] = "toadd" /\ NobodyElse(d, {"add", "confirm"})
  /\ IF hasList /\ Cardinality(listed) < Limit THEN GoesOn(d, "add") ELSE Leave(d)
  /\ NoFault
  /\ UNCHANGED <<onRadio, lookup, removal>>

(* The radio updates a contact it has and refuses one it has no room for.   *)
HasRoom(k) == Cardinality(onRadio \cup {k}) <= Limit

AddAnswered(d) ==
  /\ pc[d] = "add" /\ HasRadio(d)
  /\ \/ HasRoom(KeyOf[d]) /\ onRadio' = onRadio \cup {KeyOf[d]} /\ GoesOn(d, "confirm")
     \/ ~HasRoom(KeyOf[d]) /\ Leave(d) /\ UNCHANGED onRadio
  /\ NoFault
  /\ UNCHANGED <<lookup, removal>>

ConfirmAnswered(d) ==
  /\ pc[d] = "confirm" /\ HasRadio(d)
  /\ \/ /\ KeyOf[d] \in onRadio /\ Cached(d) /\ GoesOn(d, "send")
        /\ listed' = IF hasList THEN listed \cup {KeyOf[d]} ELSE listed
     \/ KeyOf[d] \notin onRadio /\ Leave(d) /\ UNCHANGED <<cache, verified, listed>>
  /\ NoFault
  /\ UNCHANGED <<onRadio, hasList, fresh, removal>>

SendAnswered(d) ==
  /\ pc[d] = "send" /\ HasRadio(d)
  /\ Leave(d)
  /\ NoFault
  /\ UNCHANGED <<onRadio, lookup, removal>>

(* A frame gets no good answer, or the wait for it or for the radio times   *)
(* out (_exchange). A key that could not be read is looked up in the list,  *)
(* a DM is repeated or given up, anything else ends the preparation.        *)
FrameFails(d) ==
  /\ pc[d] \in {"read", "list", "add", "confirm", "send"}
  /\ pc[d] = "send" => HasRadio(d)
  /\ Fault
  /\ \/ pc[d] = "read" /\ GoesOn(d, "tolist")
     \/ pc[d] \in {"list", "add", "confirm"} /\ Leave(d)
     \/ pc[d] = "send" /\ (GoesOn(d, "send") \/ Leave(d))
  /\ \/ UNCHANGED onRadio
     \/ /\ pc[d] = "add" /\ HasRadio(d) /\ HasRoom(KeyOf[d])
        /\ onRadio' = onRadio \cup {KeyOf[d]}
  /\ UNCHANGED <<lookup, removal>>

(* The 20 s that use allows for the preparation are over. *)
DeadlineExpires(d) ==
  /\ pc[d] \in {"read", "tolist", "toadd"}
  /\ Leave(d)
  /\ Fault
  /\ UNCHANGED <<onRadio, lookup, removal>>

-----------------------------------------------------------------------------
(* Removals                                                                 *)

(* Purges that mark the attempt first; the others claim the key only for    *)
(* the removal itself.                                                      *)
Attempts == {"repeater", "companion"}

(* Checks, claim and the call of remove_contact, without an await between.  *)
(* All but the removal of stale contacts look the contact up in the cache.  *)
RemoveContact(p, as) ==
  /\ pc[p] = "idle"
  /\ ~IsInUse(KeyOf[p])
  /\ as \in Attempts => KeyOf[p] \notin claims
  /\ as # "stale" => KeyOf[p] \in cache
  /\ kind' = [kind EXCEPT ![p] = as]
  /\ own' = [own EXCEPT ![p] = KeyOf[p] \notin claims]
  /\ claims' = claims \cup {KeyOf[p]}
  /\ doubtful' = doubtful \cup ({KeyOf[p]} \cap claims)
  /\ GoTo(p, "remove")
  /\ NoFault
  /\ UNCHANGED <<onRadio, lookup, active>>

(* The way out of a removal. *)
Ends(p) == GoTo(p, "end") /\ kind' = [kind EXCEPT ![p] = "none"]

Release(p) ==
  /\ claims' = IF own[p] THEN claims \ {KeyOf[p]} ELSE claims
  /\ own' = [own EXCEPT ![p] = FALSE]

(* A removal that leaves the key in a fresh list. *)
LeavesListed(k) == IF fresh /\ hasList THEN {k} \cap listed ELSE {}

(* The radio has removed the contact, which is forgotten, or did not have   *)
(* it. Two kinds go on with a new list, one of them still under its claim.  *)
RemoveAnswered(p) ==
  /\ pc[p] = "remove" /\ HasRadio(p)
  /\ onRadio' = onRadio \ {KeyOf[p]}
  /\ doubtful' = doubtful \cup LeavesListed(KeyOf[p])
  /\ verified' = IF KeyOf[p] \in onRadio THEN verified \ {KeyOf[p]} ELSE verified
  /\ cache' = IF KeyOf[p] \in onRadio \/ kind[p] \in {"companion", "by_key"}
                THEN cache \ {KeyOf[p]} ELSE cache
  /\ IF kind[p] \in {"companion", "by_key"} THEN GoTo(p, "sleep") /\ UNCHANGED kind ELSE Ends(p)
  /\ IF kind[p] = "companion" THEN UNCHANGED <<claims, own>> ELSE Release(p)
  /\ NoFault
  /\ UNCHANGED <<listed, hasList, fresh, active>>

(* The claim is kept when no answer comes. *)
RemoveFails_KeepsClaim(p) ==
  /\ pc[p] = "remove"
  /\ HasRadio(p) \/ kind[p] = "stale"
  /\ Fault
  /\ Ends(p) /\ own' = [own EXCEPT ![p] = FALSE]
  /\ UNCHANGED <<onRadio, lookup, claims, active, doubtful>>

(* The radio refuses, or no answer comes in time although it may have       *)
(* removed the contact; that takes longer than a verification lasts, and    *)
(* nobody verifies a key that has been claimed all the while.               *)
RemoveFails(p) ==
  /\ pc[p] = "remove"
  /\ HasRadio(p) \/ kind[p] = "stale"
  /\ Fault
  /\ \/ HasRadio(p) /\ UNCHANGED <<onRadio, verified, doubtful>>
     \/ /\ \/ UNCHANGED <<onRadio, doubtful>>
           \/ /\ HasRadio(p)
              /\ onRadio' = onRadio \ {KeyOf[p]}
              /\ doubtful' = doubtful \cup LeavesListed(KeyOf[p])
        /\ verified' = IF own[p] THEN verified \ {KeyOf[p]} ELSE verified
  /\ Ends(p) /\ Release(p)
  /\ UNCHANGED <<cache, listed, hasList, fresh, active>>

(* Two seconds later the list is read again. *)
AsksForList(p) ==
  /\ pc[p] = "sleep"
  /\ GoTo(p, "relist")
  /\ NoFault
  /\ UNCHANGED <<onRadio, lookup, active, removal>>

RelistAnswered(p) ==
  /\ pc[p] = "relist" /\ HasRadio(p)
  /\ \/ Rereads /\ NoFault
     \/ UNCHANGED cache /\ Fault
  /\ Ends(p) /\ Release(p)
  /\ UNCHANGED <<onRadio, verified, listed, hasList, fresh, active, doubtful>>

-----------------------------------------------------------------------------
VerificationLapses(k) ==
  /\ k \in verified
  /\ verified' = verified \ {k}
  /\ UNCHANGED <<onRadio, cache, listed, hasList, fresh, active, removal, pc, ahead, faults>>

ListLapses ==
  /\ fresh
  /\ fresh' = FALSE
  /\ UNCHANGED <<onRadio, cache, verified, listed, hasList, active, removal, pc, ahead, faults>>

DmSteps(d) ==
  \/ Resolve(d) \/ KeyAnswered(d) \/ Refresh(d) \/ ListAnswered(d) \/ Restore(d)
  \/ AddAnswered(d) \/ ConfirmAnswered(d) \/ SendAnswered(d)

RemovalSteps(p) == RemoveAnswered(p) \/ AsksForList(p) \/ RelistAnswered(p)

Next ==
  \/ \E d \in Dms : Use(d) \/ DmSteps(d) \/ FrameFails(d) \/ DeadlineExpires(d)
  \/ \E p \in Removals, as \in Kinds : RemoveContact(p, as)
  \/ \E p \in Removals : RemovalSteps(p) \/ RemoveFails(p)
  \/ \E k \in Keys : VerificationLapses(k)
  \/ ListLapses

Spec == Init /\ [][Next]_vars

(* The event loop runs what is ready and the radio answers, or the library  *)
(* ends the wait for it.                                                    *)
Fairness ==
  /\ \A d \in Dms : WF_vars(DmSteps(d))
  /\ \A p \in Removals : WF_vars(RemovalSteps(p))

FairSpec == Spec /\ Fairness

-----------------------------------------------------------------------------
(* "Contact cleanup skips recipients in use" (docs/dm-clock-sync.md): while *)
(* a DM is sent the radio has its recipient, unless a removal met another   *)
(* removal of the same contact, or left it in the list that DMs share.      *)
LeaseHoldsContact ==
  \A d \in Dms : pc[d] = "send" => KeyOf[d] \in onRadio \cup doubtful

(* A claim belongs to a removal under way: a claim left behind would have   *)
(* every DM to that node refused until the bot restarts.                    *)
ClaimHasRemoval ==
  \A k \in claims :
    \E p \in Removals : KeyOf[p] = k /\ own[p] /\ pc[p] \notin {"idle", "end"}

(* Every DM and every removal comes to its end, however they wait for a     *)
(* recipient, the shared list, a restoration and the radio.                 *)
EverybodyEnds == <>[](\A t \in Tasks : pc[t] \in {"idle", "end"})
=============================================================================
