------------------------------ MODULE Accounts ------------------------------
(***************************************************************************)
(* A browser's tabs, the gateway's guard, auth-service and the profiles of *)
(* user-service.  A tab keeps its session in memory and writes it to the   *)
(* browser's storage, which other tabs read when they are loaded and at no *)
(* other time.  A request that is answered 401 makes the tab refresh its   *)
(* session; requests of a tab that are answered so meanwhile wait for the  *)
(* same refresh.  Whatever the refresh brings is put into memory and       *)
(* storage when it comes, even if the user has signed out meanwhile, and   *)
(* any answer but success, a timeout of the gateway's too, ends the        *)
(* session.                                                                *)
(***************************************************************************)
EXTENDS Users

CONSTANTS Tabs

ASSUME AccountsAssumption == Callers = Tabs \X {"form", "refresh"}

VARIABLES memory,    \* memory[t]: the session of tab t
          stored,    \* the session in the browser's storage
          sent,      \* sent[t]: the session that a request of t was sent with
          meant,     \* meant[t]: who t's user has signed in as, or Nobody
          overtaken, \* tabs whose user signed in or out during a refresh
          forfeit    \* tokens that another tab has had, or that were
                     \* presented and no answer was heard

browser == <<memory, stored, sent, meant>>
causes  == <<overtaken, forfeit>>
vars    == <<authVars, userVars, browser, causes>>

Nobody     == "nobody"
Form(t)    == <<t, "form">>
Refresh(t) == <<t, "refresh">>
Owner(n)   == IF n = None THEN Nobody ELSE tokens[n].user

Init == /\ AuthInit /\ UsersInit
        /\ memory = [t \in Tabs |-> None] /\ stored = None
        /\ sent = [t \in Tabs |-> None]
        /\ meant = [t \in Tabs |-> Nobody]
        /\ overtaken = {} /\ forfeit = {}

Refreshing(t) == tasks[Refresh(t)].pc # "idle" /\ tasks[Refresh(t)].awaited

(* setSession and clearSession                                             *)
Keep(t, n) == /\ memory' = [memory EXCEPT ![t] = n]
              /\ stored' = n

(* The user of t means to be u.                                            *)
Mean(t, u) == /\ meant' = [meant EXCEPT ![t] = u]
              /\ overtaken' = IF Refreshing(t) THEN overtaken \cup {t}
                              ELSE overtaken \ {t}

-----------------------------------------------------------------------------
(* Signing in and out                                                      *)

Submit(t, kind, u) ==
  /\ Start(Form(t), kind, u, None)
  /\ UNCHANGED <<userVars, browser, causes>>

FormAnswered(t) ==
  LET task == tasks[Form(t)] IN
  /\ Ended(Form(t)) /\ task.awaited
  /\ tasks' = [tasks EXCEPT ![Form(t)] = IdleTask]
  /\ IF task.pc = "done"
     THEN Keep(t, task.answer) /\ Mean(t, task.user)
     ELSE UNCHANGED <<memory, stored, meant, overtaken>>
  /\ UNCHANGED <<database, counters, clock, userVars, sent, forfeit>>

(* mutant: the session is removed from the storage and left in memory.     *)
SignOutStored(t) ==
  /\ memory[t] # None
  /\ stored' = None
  /\ Mean(t, Nobody)
  /\ UNCHANGED <<authVars, userVars, memory, sent, forfeit>>

SignOut(t) ==
  /\ memory[t] # None
  /\ Keep(t, None)
  /\ Mean(t, Nobody)
  /\ UNCHANGED <<authVars, userVars, sent, forfeit>>

-----------------------------------------------------------------------------
(* Requests that the gateway's guard answers 401.  One that is answered    *)
(* otherwise changes nothing here, nor does one that is sent again after a *)
(* refresh; one that expiry overtakes is as if sent after it.  BOUND: of   *)
(* the requests of a tab that are under way one is followed at a time; the *)
(* next may be sent while a refresh is.                                    *)

Authorized(n) == n > stale

Request(t) ==
  /\ memory[t] # None /\ ~Authorized(memory[t])
  /\ sent[t] = None
  /\ sent' = [sent EXCEPT ![t] = memory[t]]
  /\ UNCHANGED <<authVars, userVars, memory, stored, meant, causes>>

(* refreshAuthSession: the refresh token is the one that is in memory now. *)
RequestRefused(t) ==
  /\ sent[t] # None
  /\ sent' = [sent EXCEPT ![t] = None]
  /\ CASE Refreshing(t) -> UNCHANGED <<authVars, memory, stored>>
       [] memory[t] = None /\ ~Refreshing(t) ->
            Keep(t, None) /\ UNCHANGED authVars
       [] OTHER ->
            /\ Start(Refresh(t), "refresh", Owner(memory[t]), memory[t])
            /\ UNCHANGED <<memory, stored>>
  /\ UNCHANGED <<userVars, meant, causes>>

(* mutant: a new session is stored and the tab goes on with the old.       *)
RefreshStored(t) ==
  LET task == tasks[Refresh(t)] IN
  /\ Ended(Refresh(t)) /\ task.awaited
  /\ tasks' = [tasks EXCEPT ![Refresh(t)] = IdleTask]
  /\ stored' = task.answer
  /\ memory' = IF task.pc = "done" THEN memory
               ELSE [memory EXCEPT ![t] = None]
  /\ UNCHANGED <<database, counters, clock, userVars, sent, meant, causes>>

(* executeRefreshRequest: without success the answer is None.              *)
RefreshAnswered(t) ==
  LET task == tasks[Refresh(t)] IN
  /\ Ended(Refresh(t)) /\ task.awaited
  /\ tasks' = [tasks EXCEPT ![Refresh(t)] = IdleTask]
  /\ Keep(t, task.answer)
  /\ UNCHANGED <<database, counters, clock, userVars, sent, meant, causes>>

(* Requests that the guard lets through: the profile's form and the one    *)
(* for a new address, for the user of the session.                         *)
Signed(t) == memory[t] # None /\ Authorized(memory[t])

EditProfile(t) == /\ Signed(t)
                  /\ UpdateProfile(Owner(memory[t]))
                  /\ UNCHANGED <<browser, causes>>

AddAddress(t, w, isDefault) == /\ Signed(t)
                               /\ CreateAddress(w, Owner(memory[t]), isDefault)
                               /\ UNCHANGED <<browser, causes>>

-----------------------------------------------------------------------------
(* Answers that are not heard.  The command goes on; BOUND: the tab's next *)
(* one of its kind waits for it to end.                                    *)

Unheard(c) == /\ Fault
              /\ tasks' = [tasks EXCEPT ![c].awaited = FALSE]
              /\ forfeit' = forfeit \cup ({tasks[c].token} \ {None})
              /\ UNCHANGED <<database, commands, clock>>

(* The gateway's five seconds are over: an error, as any other.            *)
GatewayTimeout(t) ==
  /\ Refreshing(t)
  /\ Unheard(Refresh(t))
  /\ Keep(t, None)
  /\ UNCHANGED <<userVars, sent, meant, overtaken>>

(* The network fails, and fetch with it: the session is left as it is.     *)
NetworkError(t) ==
  /\ Refreshing(t)
  /\ Unheard(Refresh(t))
  /\ UNCHANGED <<userVars, browser, overtaken>>

Forget(c) ==
  /\ Ended(c) /\ ~tasks[c].awaited
  /\ tasks' = [tasks EXCEPT ![c] = IdleTask]
  /\ UNCHANGED <<database, counters, clock, userVars, browser, causes>>

(* The tab is loaded, or opened, anew: what it was waiting for is gone.    *)
Reload(t) ==
  LET mine    == {c \in {Form(t), Refresh(t)} : tasks[c].pc # "idle"}
      pending == {c \in mine : tasks[c].awaited}
  IN /\ memory' = [memory EXCEPT ![t] = stored]
     /\ sent' = [sent EXCEPT ![t] = None]
     /\ meant' = [meant EXCEPT ![t] = Owner(stored)]
     /\ overtaken' = overtaken \ {t}
     /\ tasks' = [c \in Callers |-> IF c \in pending
                  THEN [tasks[c] EXCEPT !.awaited = FALSE] ELSE tasks[c]]
     /\ forfeit' = forfeit \cup (({tasks[c].token : c \in pending} \cup
          ({stored} \cap {memory[x] : x \in Tabs \ {t}})) \ {None})
     /\ UNCHANGED <<database, counters, clock, userVars, stored>>

-----------------------------------------------------------------------------
(* The services work, time passes.  A refresh that is cut off forfeits its *)
(* token.                                                                  *)
Work(c) ==
  /\ AuthStep(c)
  /\ forfeit' = IF tasks'[c].pc = "find"
                   \/ (tasks[c].pc # "find" /\ tasks'[c].pc = "failed")
                THEN forfeit \cup ({tasks[c].token} \ {None}) ELSE forfeit
  /\ UNCHANGED <<userVars, browser, overtaken>>

BrowserStep ==
  \/ \E t \in Tabs :
       \/ \E u \in Users, kind \in {"register", "login"} : Submit(t, kind, u)
       \/ FormAnswered(t) \/ SignOut(t) \/ Request(t) \/ RequestRefused(t)
       \/ RefreshAnswered(t) \/ GatewayTimeout(t) \/ NetworkError(t)
       \/ Reload(t)
  \/ \E c \in Callers : Work(c) \/ Forget(c)
  \/ Expire /\ UNCHANGED <<userVars, browser, causes>>

(* BOUND: what the browser does waits for the event to be handled or       *)
(* dropped, and ends when the first user who signs in, before any other    *)
(* command of auth-service, edits the profile or makes an address:         *)
(* sessions and the records of user-service have nothing in common but the *)
(* user and the event.                                                     *)
Waiting == \E u \in Users : registered[u] = "queued"
Begun   == addresses # <<>> \/ Busy # {} \/ edited # {}
First   == commands = 1 /\ \A c \in Callers : tasks[c].pc = "idle"

Next ==
  \/ ~Waiting /\ ~Begun /\ BrowserStep
  \/ HandleRegistered /\ UNCHANGED <<browser, causes>>
  \/ \E t \in Tabs : /\ First
                     /\ \/ EditProfile(t)
                        \/ \E w \in Writers, isDefault \in BOOLEAN :
                             AddAddress(t, w, isDefault)
  \/ AddressStep /\ UNCHANGED <<browser, causes>>

Spec == Init /\ [][Next]_vars

-----------------------------------------------------------------------------
(* Properties                                                              *)

(* A tab has the session of whom its user signed in as, and none after     *)
(* signing out, through every refresh of its own and of other tabs.  Only  *)
(* a refresh that was under way when the user signed in or out changes     *)
(* that: its answer is kept when it comes (refreshAuthSession).            *)
SessionIsOwn ==
  \A t \in Tabs : (memory[t] # None /\ Owner(memory[t]) # meant[t])
                    => t \in overtaken

(* A tab is signed out by a refused refresh only for a cause: the token    *)
(* has expired; another tab has, or had, it too; an earlier use of it was  *)
(* cut off or was not heard of.                                            *)
ExpelledForCause ==
  [][\A t \in Tabs :
       LET task == tasks[Refresh(t)] IN
       (task.pc = "refused" /\ tasks'[Refresh(t)].pc = "idle" /\ task.awaited)
         => \/ task.token <= expired
            \/ task.token \in forfeit]_vars
=============================================================================
