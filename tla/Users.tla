------------------------------- MODULE Users -------------------------------
(***************************************************************************)
(* user-service: a profile for each registered user, and the addresses.    *)
(* The profile is created by the user_registered event; a handler of the   *)
(* event that fails drops it, there is no retry and no dead-letter queue.  *)
(* An address that is to be the default one is created in a transaction    *)
(* at READ COMMITTED that first takes the default from the addresses it    *)
(* sees; what another transaction has not committed it does not see.       *)
(***************************************************************************)
EXTENDS Auth

CONSTANTS Writers,     \* create_address commands that may run at once
          MaxAddresses \* bound: addresses in a behaviour

VARIABLES profiles,  \* profiles[u]: "none", as registered, or "edited"
          addresses, \* the rows of addresses, in the order of creation
          writers,   \* writers[w]: a createAddress
          edited,    \* users that have edited their profile
          crossed    \* users two of whose default addresses were made at once

userVars == <<profiles, addresses, writers, edited, crossed>>

NoWriter == [pc |-> "idle"]

UsersInit == /\ profiles = [u \in Users |-> "none"]
             /\ addresses = <<>>
             /\ writers = [w \in Writers |-> NoWriter]
             /\ edited = {} /\ crossed = {}

(* mutant: the profile is written anew whenever the event comes.           *)
UpsertedAnew(old) == "registered"

(* The upsert of createInitialProfile leaves the names that are there.     *)
Upserted(old) == IF old = "none" THEN "registered" ELSE old

(* The service may stop before it acknowledges the event, which then comes *)
(* again.                                                                  *)
CreateInitialProfile(u) ==
  /\ registered[u] \in {"queued", "again"}
  /\ profiles' = [profiles EXCEPT ![u] = Upserted(@)]
  /\ \/ registered' = [registered EXCEPT ![u] = "handled"] /\ UNCHANGED faults
     \/ registered' = [registered EXCEPT ![u] = "again"] /\ Fault
  /\ UNCHANGED <<addresses, writers, edited, crossed>>

DropEvent(u) ==
  /\ registered[u] = "queued" /\ Fault
  /\ registered' = [registered EXCEPT ![u] = "lost"]
  /\ UNCHANGED userVars

HandleRegistered ==
  /\ \E u \in Users : CreateInitialProfile(u) \/ DropEvent(u)
  /\ UNCHANGED <<credentials, tokens, tasks, doubled, commands, clock>>

-----------------------------------------------------------------------------
(* Commands.  Without a profile they are refused, and do nothing.          *)

HasProfile(u) == profiles[u] # "none"

UpdateProfile(u) ==
  /\ HasProfile(u)
  /\ profiles' = [profiles EXCEPT ![u] = "edited"]
  /\ edited' = edited \cup {u}
  /\ UNCHANGED <<authVars, addresses, writers, crossed>>

Busy == {w \in Writers : writers[w].pc # "idle"}

CreateAddress(w, u, isDefault) ==
  /\ w \notin Busy /\ HasProfile(u)
  /\ Len(addresses) + Cardinality(Busy) < MaxAddresses
  /\ writers' = [writers EXCEPT ![w] =
       [pc |-> IF isDefault THEN "clear" ELSE "insert", user |-> u,
        isDefault |-> isDefault, cleared |-> {}]]
  /\ UNCHANGED <<authVars, profiles, addresses, edited, crossed>>

AddressesOf(u) == {i \in DOMAIN addresses : addresses[i].user = u}

(* updateMany.  It waits for a transaction that has cleared the same rows  *)
(* but, when it goes on, does not see what that one inserted.              *)
ClearDefaults(w) ==
  LET u      == writers[w].user
      rivals == {x \in Busy \ {w} : /\ writers[x].pc = "insert"
                                    /\ writers[x].isDefault
                                    /\ writers[x].user = u}
  IN /\ writers[w].pc = "clear"
     /\ writers' = [writers EXCEPT ![w].pc = "insert",
                                   ![w].cleared = AddressesOf(u)]
     /\ crossed' = IF rivals = {} THEN crossed ELSE crossed \cup {u}
     /\ UNCHANGED <<authVars, profiles, addresses, edited>>

(* create, and the COMMIT of both statements.                              *)
InsertAddress(w) ==
  LET new == [user |-> writers[w].user, isDefault |-> writers[w].isDefault]
      old == [i \in DOMAIN addresses |->
                IF i \in writers[w].cleared
                THEN [addresses[i] EXCEPT !.isDefault = FALSE]
                ELSE addresses[i]]
  IN /\ writers[w].pc = "insert"
     /\ addresses' = Append(old, new)
     /\ writers' = [writers EXCEPT ![w] = NoWriter]
     /\ UNCHANGED <<authVars, profiles, edited, crossed>>

(* An error, and the transaction is rolled back.                           *)
RollBack(w) == /\ w \in Busy
               /\ writers' = [writers EXCEPT ![w] = NoWriter]
               /\ UNCHANGED <<authVars, profiles, addresses, edited, crossed>>

AddressStep ==
  \E w \in Busy : ClearDefaults(w) \/ InsertAddress(w) \/ RollBack(w)

-----------------------------------------------------------------------------
(* Properties                                                              *)

(* Whoever has a credential has a profile, or will have one when the event *)
(* comes, unless a step between the two was cut off or failed.  What a     *)
(* user has edited stays, however often the event comes.  One address at   *)
(* most is the default one, unless two were made so at once (register,     *)
(* createInitialProfile, createAddress).                                   *)
RecordsKept ==
  /\ \A u \in credentials :
       \/ HasProfile(u)
       \/ registered[u] \in {"queued", "lost"}
       \/ \E c \in Callers : Under(c, "publish", {"register"})
                             /\ tasks[c].user = u
  /\ \A u \in edited : profiles[u] = "edited"
  /\ \A u \in Users \ crossed :
       Cardinality({i \in AddressesOf(u) : addresses[i].isDefault}) <= 1
=============================================================================
