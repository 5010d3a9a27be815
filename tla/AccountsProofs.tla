--------------------------- MODULE AccountsProofs ---------------------------
(***************************************************************************)
(* Proofs about accounts, for every set of users, tabs and writers and     *)
(* every bound: sessions, refresh tokens, profiles and addresses.          *)
(***************************************************************************)
EXTENDS Accounts, FiniteSetTheorems, SequenceTheorems, TLAPS

Steps == {"find", "create", "publish", "revoke", "issue", "done", "refused",
          "failed"}

Task == [pc : Steps, kind : {"register", "login", "refresh"}, user : Users,
         token : Nat, awaited : BOOLEAN, answer : Nat]

Token == [user : Users, from : Nat, revoked : BOOLEAN]

Live(c) == tasks[c].pc # "idle"

Typed ==
  /\ tokens \in Seq(Token)
  /\ tasks \in [Callers -> {IdleTask} \cup Task]
  /\ stale \in Nat /\ expired \in Nat
  /\ memory \in [Tabs -> Nat] /\ stored \in Nat
  /\ sent \in [Tabs -> Nat]
  /\ meant \in [Tabs -> Users \cup {Nobody}]

(* What a tab knows a session by, and what a command may have reached.     *)
SessionsExist ==
  /\ stored \in Tokens \cup {None}
  /\ \A t \in Tabs : memory[t] \in Tokens \cup {None}

TaskInv(c) ==
  LET task == tasks[c] IN
  Live(c) =>
    /\ task.kind = "refresh" => task.token \in Tokens
    /\ task.kind # "refresh" => task.token = None
    /\ task.pc = "revoke" => task.kind = "refresh"
    /\ task.pc \in {"create", "publish"} => task.kind = "register"
    /\ task.pc # "done" => task.answer = None
    /\ task.pc = "done" =>
         /\ task.answer \in Tokens
         /\ Owner(task.answer) = IF task.kind = "refresh" THEN Owner(task.token)
                                 ELSE task.user

KindInv(t) == /\ Live(Form(t)) => tasks[Form(t)].kind \in {"register", "login"}
              /\ Live(Refresh(t)) => tasks[Refresh(t)].kind = "refresh"

AuthInv == /\ SessionsExist
           /\ \A c \in Callers : TaskInv(c)
           /\ \A t \in Tabs : KindInv(t)

(* A refresh that has found its token valid, until it has its session.     *)
Spends(c, n) == /\ tasks[c].pc \in {"revoke", "issue"}
                /\ tasks[c].kind = "refresh" /\ tasks[c].token = n

SpentInv ==
  /\ \A c \in Callers, n \in Tokens :
       Spends(c, n) /\ tasks[c].pc = "issue" => tokens[n].revoked
  /\ \A k \in Tokens : tokens[k].from # None =>
       tokens[k].from \in Tokens /\ tokens[tokens[k].from].revoked
  /\ \A n \in Tokens \ doubled :
       /\ \A c, d \in Callers : Spends(c, n) /\ Spends(d, n) => c = d
       /\ \A k \in Tokens, c \in Callers : tokens[k].from = n => ~Spends(c, n)
       /\ \A k, l \in Tokens : tokens[k].from = n /\ tokens[l].from = n => k = l

(* The user_registered event of a user who has a credential.               *)
Publishing(u) == \E c \in Callers : Under(c, "publish", {"register"})
                                    /\ tasks[c].user = u

ProfileInv ==
  /\ registered \in [Users -> {"none", "queued", "again", "handled", "lost"}]
  /\ profiles \in [Users -> {"none", "registered", "edited"}]
  /\ credentials \subseteq Users
  /\ \A u \in credentials :
       \/ HasProfile(u)
       \/ registered[u] \in {"queued", "lost"}
       \/ Publishing(u)
  /\ \A u \in Users : registered[u] \in {"again", "handled"} => HasProfile(u)
  /\ \A u \in edited : u \in Users /\ profiles[u] = "edited"

(* A transaction that is about to insert a default address has taken the   *)
(* default from every other, unless two are at once.                       *)
Writer == [pc : {"clear", "insert"}, user : Users, isDefault : BOOLEAN,
           cleared : SUBSET Nat]

Defaults(u) == {i \in AddressesOf(u) : addresses[i].isDefault}

Inserts(w, u) == /\ writers[w].pc = "insert" /\ writers[w].isDefault
                 /\ writers[w].user = u

AddressInv ==
  /\ addresses \in Seq([user : Users, isDefault : BOOLEAN])
  /\ writers \in [Writers -> {NoWriter} \cup Writer]
  /\ \A w \in Writers : writers[w].pc = "clear" => writers[w].isDefault
  /\ \A u \in Users \ crossed :
       /\ \A i, j \in Defaults(u) : i = j
       /\ \A w \in Writers : Inserts(w, u) => Defaults(u) \subseteq writers[w].cleared
       /\ \A w, x \in Writers : Inserts(w, u) /\ Inserts(x, u) => w = x

(* The user a refresh asks for is the one that the tab is meant for.       *)
SessionInv(t) ==
  /\ (memory[t] # None /\ Owner(memory[t]) # meant[t]) => t \in overtaken
  /\ Refreshing(t) /\ t \notin overtaken =>
       Owner(tasks[Refresh(t)].token) = meant[t]

(* An answer on its way is known to nobody else.                           *)
FreshInv(c) ==
  LET n == tasks[c].answer IN
  Live(c) /\ n # None =>
    /\ \A t \in Tabs : memory[t] # n
    /\ \A d \in Callers : Live(d) => tasks[d].token # n
    /\ \A d \in Callers \ {c} : Live(d) => tasks[d].answer # n
    /\ ~tokens[n].revoked

(* Where a token that is not forfeit may be: with one tab, in its memory   *)
(* and in its refresh.                                                     *)
Refreshes(t, n) == Live(Refresh(t)) /\ tasks[Refresh(t)].token = n

LineageInv(t) ==
  /\ memory[t] \notin forfeit \cup {None} =>
       /\ \A x \in Tabs \ {t} : memory[x] # memory[t]
       /\ tokens[memory[t]].revoked =>
            /\ Refreshes(t, memory[t])
            /\ tasks[Refresh(t)].pc \in {"issue", "done"}
  /\ LET task == tasks[Refresh(t)] IN
     Live(Refresh(t)) /\ task.token \notin forfeit =>
       /\ task.awaited
       /\ \A x \in Tabs \ {t} : memory[x] # task.token /\ ~Refreshes(x, task.token)
       /\ task.pc = "find" => ~tokens[task.token].revoked
       /\ task.pc = "refused" => task.token <= expired

StoredInv == stored # None => \E t \in Tabs : memory[t] = stored

CauseInv == /\ StoredInv
            /\ \A c \in Callers : FreshInv(c)
            /\ \A t \in Tabs : LineageInv(t)

IInv == /\ Typed /\ AuthInv /\ SpentInv /\ ProfileInv /\ AddressInv
        /\ \A t \in Tabs : SessionInv(t)
        /\ CauseInv

-----------------------------------------------------------------------------
(* Commands and the rows they make                                         *)

(* A command under way is a record with all its fields.                    *)
LEMMA LiveTask ==
  ASSUME Typed, NEW c \in Callers, Live(c)
  PROVE  tasks[c] \in Task
BY DEF Typed, Live, IdleTask

(* Every caller is the form or the refresh of one tab.                     *)
LEMMA CallersOfTabs ==
  /\ \A t \in Tabs : Form(t) \in Callers /\ Refresh(t) \in Callers
  /\ \A c \in Callers : \E t \in Tabs : c = Form(t) \/ c = Refresh(t)
  /\ \A t, x \in Tabs : /\ Form(t) # Refresh(x)
                        /\ Refresh(t) = Refresh(x) => t = x
                        /\ Form(t) = Form(x) => t = x
BY AccountsAssumption DEF Form, Refresh

(* A command goes on: its place, its answer and whether it is awaited are  *)
(* set, and nobody else's command moves.                                   *)
Turns(c, pc, answer, awaited) ==
  /\ tasks' \in [Callers -> {IdleTask} \cup Task]
  /\ \A d \in Callers \ {c} : tasks'[d] = tasks[d]
  /\ tasks'[c] \in Task
  /\ tasks'[c].pc = pc /\ tasks'[c].answer = answer /\ tasks'[c].awaited = awaited
  /\ tasks'[c].kind = tasks[c].kind /\ tasks'[c].user = tasks[c].user
  /\ tasks'[c].token = tasks[c].token

(* Each of the three ways a command is changed turns it so.                *)
LEMMA Turning ==
  ASSUME Typed, NEW c \in Callers, Live(c),
         NEW pc \in Steps, NEW answer \in Nat
  PROVE  /\ Goto(c, pc) => Turns(c, pc, tasks[c].answer, tasks[c].awaited)
         /\ tasks' = [tasks EXCEPT ![c].pc = pc, ![c].answer = answer]
              => Turns(c, pc, answer, tasks[c].awaited)
         /\ tasks' = [tasks EXCEPT ![c].awaited = FALSE]
              => Turns(c, tasks[c].pc, tasks[c].answer, FALSE)
<1>1. tasks[c] \in Task
  BY LiveTask
<1>2. ASSUME NEW task \in Task, tasks' = [tasks EXCEPT ![c] = task],
             task.kind = tasks[c].kind, task.user = tasks[c].user,
             task.token = tasks[c].token
      PROVE  Turns(c, task.pc, task.answer, task.awaited)
  BY <1>2 DEF Turns, Typed
<1>3. ASSUME Goto(c, pc) PROVE Turns(c, pc, tasks[c].answer, tasks[c].awaited)
  <2> DEFINE task == [tasks[c] EXCEPT !.pc = pc]
  <2>1. task \in Task /\ task.pc = pc /\ task.answer = tasks[c].answer
        /\ task.awaited = tasks[c].awaited /\ task.kind = tasks[c].kind
        /\ task.user = tasks[c].user /\ task.token = tasks[c].token
    BY <1>1 DEF Task
  <2>2. tasks' = [tasks EXCEPT ![c] = task]
    BY <1>3 DEF Goto
  <2> HIDE DEF task
  <2>3. Turns(c, task.pc, task.answer, task.awaited)
    BY <1>2, <2>1, <2>2
  <2>4. QED
    BY <2>1, <2>3
<1>4. ASSUME tasks' = [tasks EXCEPT ![c].pc = pc, ![c].answer = answer]
      PROVE  Turns(c, pc, answer, tasks[c].awaited)
  <2> DEFINE task == [tasks[c] EXCEPT !.pc = pc, !.answer = answer]
  <2>1. task \in Task /\ task.pc = pc /\ task.answer = answer
        /\ task.awaited = tasks[c].awaited /\ task.kind = tasks[c].kind
        /\ task.user = tasks[c].user /\ task.token = tasks[c].token
    BY <1>1 DEF Task
  <2>2. tasks' = [tasks EXCEPT ![c] = task]
    BY <1>4 DEF Typed
  <2> HIDE DEF task
  <2>3. Turns(c, task.pc, task.answer, task.awaited)
    BY <1>2, <2>1, <2>2
  <2>4. QED
    BY <2>1, <2>3
<1>5. ASSUME tasks' = [tasks EXCEPT ![c].awaited = FALSE]
      PROVE  Turns(c, tasks[c].pc, tasks[c].answer, FALSE)
  <2> DEFINE task == [tasks[c] EXCEPT !.awaited = FALSE]
  <2>1. task \in Task /\ task.pc = tasks[c].pc /\ task.answer = tasks[c].answer
        /\ task.awaited = FALSE /\ task.kind = tasks[c].kind
        /\ task.user = tasks[c].user /\ task.token = tasks[c].token
    BY <1>1 DEF Task
  <2>2. tasks' = [tasks EXCEPT ![c] = task]
    BY <1>5
  <2> HIDE DEF task
  <2>3. Turns(c, task.pc, task.answer, task.awaited)
    BY <1>2, <2>1, <2>2
  <2>4. QED
    BY <2>1, <2>3
<1>6. QED
  BY <1>3, <1>4, <1>5

(* What a step of auth-service does, as far as tokens go: it finds one, it *)
(* revokes it, it creates the next, or it has nothing to do with any.      *)
Passes(c, pc) ==
  /\ Turns(c, pc, None, tasks[c].awaited) /\ pc \notin {"revoke", "done"}
  /\ tasks[c].kind = "refresh" => pc \in {"find", "failed"}
  /\ pc \in {"create", "publish"} => tasks[c].kind = "register"
  /\ UNCHANGED <<tokens, doubled>>

Finds(c, pc) ==
  LET n == tasks[c].token IN
  /\ tasks[c].pc = "find" /\ tasks[c].kind = "refresh"
  /\ pc = IF Valid(n) THEN "revoke" ELSE "refused"
  /\ Turns(c, pc, None, tasks[c].awaited)
  /\ doubled' = IF Valid(n) /\ Refreshers(n) # {} THEN doubled \cup {n}
                ELSE doubled
  /\ UNCHANGED tokens

Revokes(c) ==
  /\ tasks[c].pc = "revoke" /\ tasks[c].kind = "refresh"
  /\ Turns(c, "issue", None, tasks[c].awaited)
  /\ tokens' = [tokens EXCEPT ![tasks[c].token].revoked = TRUE]
  /\ UNCHANGED doubled

Issues(c) ==
  LET n == tasks[c].token
      u == IF n = None THEN tasks[c].user ELSE tokens[n].user
  IN /\ tasks[c].pc = "issue"
     /\ tokens' = Append(tokens, [user |-> u, from |-> n, revoked |-> FALSE])
     /\ Turns(c, "done", Len(tokens'), tasks[c].awaited)
     /\ UNCHANGED doubled

(* Every statement of auth-service, failed or cut off, is one of these.    *)
LEMMA AuthStepIs ==
  ASSUME Typed, AuthInv, NEW c \in Callers, AuthStep(c)
  PROVE  /\ Live(c)
         /\ \/ \E pc \in Steps : Passes(c, pc) \/ Finds(c, pc)
            \/ Revokes(c) \/ Issues(c)
<1>0. TaskInv(c)
  BY DEF AuthInv
<1>1. CASE FindUser(c)
  <2>1. Live(c) /\ tasks[c].pc = "find" /\ tasks[c].kind # "refresh"
    BY <1>1 DEF FindUser, Under, Live
  <2>2. tasks[c].answer = None
    BY <1>0, <2>1 DEF TaskInv
  <2>3. PICK pc \in Steps : /\ Goto(c, pc) /\ pc \notin {"revoke", "done", "publish"}
                            /\ pc = "create" => tasks[c].kind = "register"
    BY <1>1 DEF FindUser, Under, Steps
  <2>4. Turns(c, pc, None, tasks[c].awaited)
    BY <2>1, <2>2, <2>3, Turning DEF None
  <2>5. Passes(c, pc)
    BY <1>1, <2>1, <2>3, <2>4 DEF FindUser, database, Passes
  <2>6. QED
    BY <2>1, <2>5
<1>2. CASE CreateUserCredential(c)
  <2>1. Live(c) /\ tasks[c].pc = "create" /\ tasks[c].kind = "register"
    BY <1>2 DEF CreateUserCredential, Under, Live
  <2>2. tasks[c].answer = None
    BY <1>0, <2>1 DEF TaskInv
  <2>3. PICK pc \in {"failed", "publish"} : Goto(c, pc)
    BY <1>2 DEF CreateUserCredential
  <2>4. Turns(c, pc, None, tasks[c].awaited)
    BY <2>1, <2>2, <2>3, Turning DEF None, Steps
  <2>5. Passes(c, pc)
    BY <1>2, <2>1, <2>4 DEF CreateUserCredential, Passes
  <2>6. QED
    BY <2>1, <2>5 DEF Steps
<1>3. CASE PublishUserRegistered(c)
  <2>1. Live(c) /\ tasks[c].pc = "publish" /\ tasks[c].kind = "register"
    BY <1>3 DEF PublishUserRegistered, Under, Live
  <2>2. tasks[c].answer = None
    BY <1>0, <2>1 DEF TaskInv
  <2>3. Turns(c, "issue", None, tasks[c].awaited)
    BY <1>3, <2>1, <2>2, Turning DEF PublishUserRegistered, None, Steps
  <2>4. Passes(c, "issue")
    BY <1>3, <2>1, <2>3 DEF PublishUserRegistered, Passes
  <2>5. QED
    BY <2>1, <2>4 DEF Steps
<1>4. CASE FindToken(c)
  <2>1. Live(c) /\ tasks[c].pc = "find" /\ tasks[c].kind = "refresh"
    BY <1>4 DEF FindToken, Under, Live
  <2>2. tasks[c].answer = None
    BY <1>0, <2>1 DEF TaskInv
  <2>3. PICK pc \in {"revoke", "refused"} :
          Goto(c, pc) /\ pc = IF Valid(tasks[c].token) THEN "revoke" ELSE "refused"
    BY <1>4 DEF FindToken
  <2>4. Turns(c, pc, None, tasks[c].awaited)
    BY <2>1, <2>2, <2>3, Turning DEF None, Steps
  <2>5. Finds(c, pc)
    BY <1>4, <2>1, <2>3, <2>4 DEF FindToken, Finds
  <2>6. QED
    BY <2>1, <2>5 DEF Steps
<1>5. CASE RevokeRefreshToken(c)
  <2>1. Live(c) /\ tasks[c].pc = "revoke" /\ tasks[c].kind = "refresh"
    BY <1>5 DEF RevokeRefreshToken, Under, Live
  <2>2. tasks[c].answer = None
    BY <1>0, <2>1 DEF TaskInv
  <2>3. Turns(c, "issue", None, tasks[c].awaited)
    BY <1>5, <2>1, <2>2, Turning DEF RevokeRefreshToken, None, Steps
  <2>4. QED
    BY <1>5, <2>1, <2>3 DEF RevokeRefreshToken, Revokes
<1>6. CASE CreateSession(c)
  <2>1. Live(c) /\ tasks[c].pc = "issue"
    BY <1>6 DEF CreateSession, Under, Live
  <2>2. Len(tokens') \in Nat
    BY <1>6 DEF CreateSession, Typed
  <2>3. Turns(c, "done", Len(tokens'), tasks[c].awaited)
    BY <1>6, <2>1, <2>2, Turning DEF CreateSession, Steps
  <2>4. QED
    BY <1>6, <2>1, <2>3 DEF CreateSession, Issues
<1>7. CASE Fail(c)
  <2>1. Live(c) /\ tasks[c].pc # "done"
    BY <1>7 DEF Fail, Working, Ended, Live
  <2>2. tasks[c].answer = None
    BY <1>0, <2>1 DEF TaskInv
  <2>3. Turns(c, "failed", None, tasks[c].awaited)
    BY <1>7, <2>1, <2>2, Turning DEF Fail, None, Steps
  <2>4. Passes(c, "failed")
    BY <1>7, <2>3 DEF Fail, Passes
  <2>5. QED
    BY <2>1, <2>4 DEF Steps
<1>8. CASE StopAndRedeliver(c)
  <2>1. Live(c)
    BY <1>8 DEF StopAndRedeliver, Live
  <2>2. Turns(c, "find", None, tasks[c].awaited)
    BY <1>8, <2>1, Turning DEF StopAndRedeliver, None, Steps
  <2>3. Passes(c, "find")
    BY <1>8, <2>2 DEF StopAndRedeliver, Passes
  <2>4. QED
    BY <2>1, <2>3 DEF Steps
<1>9. QED
  BY <1>1, <1>2, <1>3, <1>4, <1>5, <1>6, <1>7, <1>8 DEF AuthStep

(* Rows of refresh_tokens are made and revoked, and nothing else.          *)
Grows ==
  /\ tokens' \in Seq(Token) /\ Len(tokens) <= Len(tokens')
  /\ \A n \in Tokens : /\ tokens'[n].user = tokens[n].user
                       /\ tokens'[n].from = tokens[n].from
                       /\ tokens[n].revoked => tokens'[n].revoked

(* No statement deletes a row, or gives a token to another user.           *)
LEMMA AuthStepGrows ==
  ASSUME Typed, AuthInv, NEW c \in Callers, AuthStep(c)
  PROVE  Grows
<1>1. PICK pc \in Steps : Passes(c, pc) \/ Finds(c, pc) \/ Revokes(c) \/ Issues(c)
  BY AuthStepIs DEF Steps
<1>2. Live(c) /\ tasks[c] \in Task /\ TaskInv(c)
  BY AuthStepIs, LiveTask DEF AuthInv
<1>3. CASE Passes(c, pc) \/ Finds(c, pc)
  BY <1>3 DEF Passes, Finds, Grows, Typed, Tokens
<1>4. CASE Revokes(c)
  <2>1. tasks[c].token \in Tokens
    BY <1>2, <1>4 DEF Revokes, TaskInv
  <2>2. tokens[tasks[c].token] \in Token
    BY <2>1 DEF Typed, Tokens
  <2>3. [tokens[tasks[c].token] EXCEPT !.revoked = TRUE] \in Token
    BY <2>2 DEF Token
  <2>4. QED
    BY <1>4, <2>1, <2>2, <2>3 DEF Revokes, Grows, Typed, Tokens, Token
<1>5. CASE Issues(c)
  <2> DEFINE n == tasks[c].token
             u == IF n = None THEN tasks[c].user ELSE tokens[n].user
             new == [user |-> u, from |-> n, revoked |-> FALSE]
  <2>1. u \in Users /\ n \in Nat
    <3>1. n \in Nat /\ tasks[c].user \in Users
      BY <1>2 DEF Task
    <3>2. CASE n = None
      BY <3>1, <3>2
    <3>3. CASE n # None
      <4>1. n \in Tokens
        BY <1>2, <3>3 DEF TaskInv
      <4>2. tokens[n] \in Token
        BY <4>1 DEF Typed, Tokens
      <4>3. QED
        BY <3>1, <3>3, <4>2 DEF Token
    <3>4. QED
      BY <3>2, <3>3
  <2>2. new \in Token
    BY <2>1 DEF Token
  <2>3. tokens' = Append(tokens, new)
    BY <1>5 DEF Issues
  <2> HIDE DEF new
  <2>4. QED
    BY <2>2, <2>3 DEF Grows, Typed, Tokens
<1>6. QED
  BY <1>1, <1>3, <1>4, <1>5

(* A token that exists goes on to, with the same owner.                    *)
LEMMA GrowthKeeps ==
  ASSUME Typed, Grows, NEW n \in Tokens \cup {None}
  PROVE  n \in (Tokens \cup {None})' /\ Owner(n)' = Owner(n)
         /\ (n \in Tokens => n \in Tokens')
BY DEF Typed, Grows, Tokens, Owner, None

(* What the browser does to a command: it gives it, it takes its answer,   *)
(* it no longer waits for it.                                              *)
Begins(c, kind, u, n) == /\ ~Live(c)
                         /\ tasks' = [tasks EXCEPT ![c] = NewTask(kind, u, n)]

Ends(c) == Ended(c) /\ tasks' = [tasks EXCEPT ![c] = IdleTask]

Leaves(S) ==
  /\ \A c \in S : Live(c)
  /\ tasks' = [c \in Callers |-> IF c \in S THEN [tasks[c] EXCEPT !.awaited = FALSE]
                                 ELSE tasks[c]]

Stays(c) ==
  /\ Live(c) /\ Live(c)'
  /\ tasks'[c].pc = tasks[c].pc /\ tasks'[c].kind = tasks[c].kind
  /\ tasks'[c].user = tasks[c].user /\ tasks'[c].token = tasks[c].token
  /\ tasks'[c].answer = tasks[c].answer
  /\ tasks'[c].awaited => tasks[c].awaited

(* The commands that a tab gives.                                          *)
Given(c, kind, n) ==
  \E t \in Tabs :
    \/ c = Form(t) /\ kind \in {"register", "login"} /\ n = None
    \/ c = Refresh(t) /\ kind = "refresh" /\ n \in Tokens

(* BrowserStep, but for the work of auth-service.                          *)
AtBrowser ==
  \/ UNCHANGED tasks
  \/ \E c \in Callers, kind \in {"register", "login", "refresh"}, u \in Users,
        n \in Tokens \cup {None} : Given(c, kind, n) /\ Begins(c, kind, u, n)
  \/ \E c \in Callers : Ends(c)
  \/ \E S \in SUBSET Callers : Leaves(S)

Carried ==
  /\ tasks' \in [Callers -> {IdleTask} \cup Task]
  /\ \A c \in Callers :
       \/ Stays(c)
       \/ ~Live(c)' /\ (Live(c) => Ended(c))
       \/ ~Live(c) /\ tasks'[c].pc = "find" /\ tasks'[c].answer = None

(* A tab never changes how far a command has come.                         *)
LEMMA Carries ==
  ASSUME Typed, AtBrowser
  PROVE  Carried
<1>1. CASE UNCHANGED tasks
  BY <1>1 DEF Typed, Carried, Stays, Live, Ended
<1>2. ASSUME NEW c \in Callers, NEW kind \in {"register", "login", "refresh"},
             NEW u \in Users, NEW n \in Tokens \cup {None}, Begins(c, kind, u, n)
      PROVE  Carried
  <2> DEFINE task == NewTask(kind, u, n)
  <2>1. task \in Task /\ task.pc = "find" /\ task.answer = None
    BY DEF NewTask, Task, Steps, Tokens, None, Typed
  <2>2. ~Live(c) /\ tasks' = [tasks EXCEPT ![c] = task]
    BY <1>2 DEF Begins
  <2> HIDE DEF task
  <2>3. QED
    BY <2>1, <2>2 DEF Typed, Carried, Stays, Live
<1>3. ASSUME NEW c \in Callers, Ends(c)
      PROVE  Carried
  BY <1>3 DEF Ends, Typed, Carried, Stays, Live, IdleTask
<1>4. ASSUME NEW S \in SUBSET Callers, Leaves(S)
      PROVE  Carried
  <2>1. ASSUME NEW c \in S
        PROVE  /\ [tasks[c] EXCEPT !.awaited = FALSE] \in Task
               /\ Stays(c)
    <3>1. tasks[c] \in Task /\ Live(c)
      BY <1>4, LiveTask DEF Leaves
    <3>2. /\ [tasks[c] EXCEPT !.awaited = FALSE] \in Task
          /\ tasks'[c] = [tasks[c] EXCEPT !.awaited = FALSE]
      BY <1>4, <3>1 DEF Leaves, Task
    <3>3. QED
      BY <3>1, <3>2 DEF Stays, Live, Task
  <2>2. ASSUME NEW c \in Callers \ S
        PROVE  tasks'[c] = tasks[c]
    BY <1>4 DEF Leaves
  <2>3. tasks' \in [Callers -> {IdleTask} \cup Task]
    BY <1>4, <2>1 DEF Leaves, Typed
  <2>4. QED
    BY <2>1, <2>2, <2>3 DEF Carried, Stays, Live, Ended
<1>5. QED
  BY <1>1, <1>2, <1>3, <1>4 DEF AtBrowser

-----------------------------------------------------------------------------
(* A refresh token buys one session                                        *)

(* No tab makes a refresh find its token valid.                            *)
LEMMA SpentAtBrowser ==
  ASSUME Typed, SpentInv, AtBrowser, UNCHANGED <<tokens, doubled>>
  PROVE  SpentInv'
<1>1. ASSUME NEW c \in Callers, NEW n, Spends(c, n)'
      PROVE  Spends(c, n) /\ tasks'[c].pc = tasks[c].pc
  BY <1>1, Carries DEF Carried, Stays, Spends, Live
<1>2. Tokens' = Tokens
  BY DEF Tokens
<1>3. QED
  BY <1>1, <1>2 DEF SpentInv

(* A refresh that finds its token valid is alone with it, or is noted      *)
(* (refresh).                                                              *)
LEMMA SpentAtWork ==
  ASSUME Typed, AuthInv, SpentInv, NEW c \in Callers, AuthStep(c)
  PROVE  SpentInv'
<1>1. PICK pc \in Steps : Passes(c, pc) \/ Finds(c, pc) \/ Revokes(c) \/ Issues(c)
  BY AuthStepIs DEF Steps
<1>2. Live(c) /\ tasks[c] \in Task /\ TaskInv(c) /\ Grows
  BY AuthStepIs, AuthStepGrows, LiveTask DEF AuthInv
<1>3. CASE Passes(c, pc)
  <2>1. ASSUME NEW d \in Callers, NEW n, Spends(d, n)'
        PROVE  Spends(d, n) /\ tasks'[d] = tasks[d]
    BY <1>3, <2>1 DEF Passes, Turns, Spends
  <2>2. Tokens' = Tokens /\ UNCHANGED <<tokens, doubled>>
    BY <1>3 DEF Passes, Tokens
  <2>3. QED
    BY <2>1, <2>2 DEF SpentInv
<1>4. CASE Finds(c, pc)
  <2>1. Tokens' = Tokens /\ UNCHANGED tokens /\ doubled \subseteq doubled'
    BY <1>4 DEF Finds, Tokens
  <2>2. ASSUME NEW d \in Callers, NEW n, Spends(d, n)', ~Spends(d, n)
        PROVE  d = c /\ n = tasks[c].token /\ tasks'[c].pc = "revoke" /\ Valid(n)
    BY <1>4, <2>2 DEF Finds, Turns, Spends
  <2>3. ASSUME Valid(tasks[c].token), tasks[c].token \notin doubled',
               NEW d \in Callers
        PROVE  ~Spends(d, tasks[c].token)
    <3>1. Refreshers(tasks[c].token) = {}
      BY <1>4, <2>3 DEF Finds
    <3>2. tasks[d].pc = "revoke" => ~Spends(d, tasks[c].token)
      BY <3>1 DEF Refreshers, Under, Spends
    <3>3. tasks[d].pc = "issue" => ~Spends(d, tasks[c].token)
      BY <1>2, <1>4, <2>3 DEF SpentInv, Finds, TaskInv, Valid
    <3>4. QED
      BY <3>2, <3>3 DEF Spends
  <2>4. ASSUME Valid(tasks[c].token), NEW k \in Tokens
        PROVE  tokens[k].from # tasks[c].token
    BY <1>2, <1>4, <2>4 DEF SpentInv, Finds, TaskInv, Valid, Tokens, None
  <2>5. QED
    BY <1>4, <2>1, <2>2, <2>3, <2>4 DEF SpentInv, Finds, Turns, Spends
<1>5. CASE Revokes(c)
  <2> DEFINE m == tasks[c].token
  <2>1. /\ m \in Tokens /\ Tokens' = Tokens /\ UNCHANGED doubled
        /\ tokens'[m].revoked
        /\ \A n \in Tokens : tokens'[n].from = tokens[n].from
                             /\ (tokens[n].revoked => tokens'[n].revoked)
    <3>1. m \in Tokens /\ UNCHANGED doubled
      BY <1>2, <1>5 DEF Revokes, TaskInv
    <3>2. tokens[m] \in Token
      BY <3>1 DEF Typed, Tokens
    <3>3. [tokens[m] EXCEPT !.revoked = TRUE] \in Token
      BY <3>2 DEF Token
    <3>5. Tokens' = Tokens /\ tokens'[m] = [tokens[m] EXCEPT !.revoked = TRUE]
      <4> DEFINE e == [tokens[m] EXCEPT !.revoked = TRUE]
      <4>1. tokens' = [tokens EXCEPT ![m] = e]
        BY <1>5 DEF Revokes
      <4>2. e \in Token /\ m \in 1..Len(tokens) /\ tokens \in Seq(Token)
        BY <3>1, <3>3 DEF Typed, Tokens
      <4> HIDE DEF e, m
      <4>3. Len([tokens EXCEPT ![m] = e]) = Len(tokens)
            /\ [tokens EXCEPT ![m] = e][m] = e
        BY ONLY <4>2, ExceptSeq
      <4>4. Tokens' = Tokens /\ tokens'[m] = e
        BY <4>1, <4>3 DEF Tokens
      <4>5. QED
        BY <4>4 DEF e, m
    <3>4. QED
      BY <1>2, <3>1, <3>2, <3>5 DEF Grows, Token
  <2>2. ASSUME NEW d \in Callers, NEW n, Spends(d, n)'
        PROVE  Spends(d, n) /\ (d = c => n = m)
               /\ (d # c => tasks'[d].pc = tasks[d].pc)
    BY <1>5, <2>2 DEF Revokes, Turns, Spends
  <2>3. QED
    BY <2>1, <2>2 DEF SpentInv
<1>6. CASE Issues(c)
  <2> DEFINE m == tasks[c].token
             l == Len(tokens) + 1
  <2>1. /\ Tokens' = Tokens \cup {l} /\ l \notin Tokens /\ UNCHANGED doubled
        /\ tokens'[l].from = m
        /\ \A n \in Tokens : tokens'[n] = tokens[n]
    BY <1>6 DEF Issues, Typed, Tokens
  <2>2. ASSUME NEW d \in Callers, NEW n, Spends(d, n)'
        PROVE  Spends(d, n) /\ d # c /\ tasks'[d].pc = tasks[d].pc
    BY <1>6, <2>2 DEF Issues, Turns, Spends
  <2>3. ASSUME m # None
        PROVE  m \in Tokens /\ Spends(c, m) /\ tokens[m].revoked
    BY <1>2, <1>6, <2>3 DEF TaskInv, Issues, Spends, SpentInv
  <2>4. None \notin Tokens' /\ ~(\E d \in Callers : Spends(d, l)) 
    BY <2>1 DEF AuthInv, TaskInv, Spends, Tokens, None, Typed, Live
  <2>5. \A k \in Tokens : tokens[k].from # l
    BY <2>1 DEF SpentInv, Tokens, None, Typed
  <2>6. QED
    BY <2>1, <2>2, <2>3, <2>4, <2>5 DEF SpentInv
<1>7. QED
  BY <1>1, <1>3, <1>4, <1>5, <1>6

-----------------------------------------------------------------------------
(* Sessions and the commands that ask for them                             *)

(* A command that a tab gives is well formed, and stays so.                *)
LEMMA TasksAtBrowser ==
  ASSUME Typed, AuthInv, AtBrowser, UNCHANGED tokens
  PROVE  /\ \A c \in Callers : TaskInv(c)'
         /\ \A t \in Tabs : KindInv(t)'
<1>1. Tokens' = Tokens /\ \A n : Owner(n)' = Owner(n)
  BY DEF Tokens, Owner
<1>2. CASE \E c \in Callers, kind \in {"register", "login", "refresh"}, u \in Users,
             n \in Tokens \cup {None} : Given(c, kind, n) /\ Begins(c, kind, u, n)
  <2>1. PICK c \in Callers, kind \in {"register", "login", "refresh"}, u \in Users,
             n \in Tokens \cup {None} : Given(c, kind, n) /\ Begins(c, kind, u, n)
    BY <1>2
  <2>2. tasks'[c] = NewTask(kind, u, n) /\ \A d \in Callers \ {c} : tasks'[d] = tasks[d]
    BY <2>1 DEF Begins, Typed
  <2>3. TaskInv(c)'
    BY <1>1, <2>1, <2>2 DEF TaskInv, NewTask, Given
  <2>4. ASSUME NEW d \in Callers \ {c} PROVE TaskInv(d)'
    BY <1>1, <2>2 DEF AuthInv, TaskInv, Live
  <2>5. ASSUME NEW t \in Tabs PROVE KindInv(t)'
    BY <2>1, <2>2, CallersOfTabs DEF AuthInv, KindInv, Live, NewTask, Given
  <2>6. QED
    BY <2>3, <2>4, <2>5
<1>3. CASE ~\E c \in Callers, kind \in {"register", "login", "refresh"}, u \in Users,
             n \in Tokens \cup {None} : Given(c, kind, n) /\ Begins(c, kind, u, n)
  <2>1. ASSUME NEW c \in Callers, Live(c)'
        PROVE  Stays(c)
    <3>1. CASE UNCHANGED tasks
      BY <2>1, <3>1 DEF Stays, Live
    <3>2. CASE \E d \in Callers : Ends(d)
      BY <2>1, <3>2 DEF Ends, Stays, Live, Typed, IdleTask
    <3>3. CASE \E S \in SUBSET Callers : Leaves(S)
      <4>1. Live(c)
        BY <2>1, <3>3 DEF Leaves, Live
      <4>2. QED
        BY <2>1, <4>1, Carries DEF Carried, Stays, Live
    <3>4. QED
      BY <1>3, <3>1, <3>2, <3>3 DEF AtBrowser
  <2>2. ASSUME NEW c \in Callers PROVE TaskInv(c)'
    BY <1>1, <2>1 DEF Stays, AuthInv, TaskInv
  <2>3. ASSUME NEW t \in Tabs PROVE KindInv(t)'
    BY <2>1, CallersOfTabs DEF Stays, AuthInv, KindInv
  <2>4. QED
    BY <2>2, <2>3
<1>4. QED
  BY <1>2, <1>3

(* The session a command answers with is that of the user it is for        *)
(* (createSession).                                                        *)
LEMMA TasksAtWork ==
  ASSUME Typed, AuthInv, NEW c \in Callers, AuthStep(c), UNCHANGED <<memory, stored>>
  PROVE  AuthInv' /\ tasks' \in [Callers -> {IdleTask} \cup Task]
<1>1. PICK pc \in Steps : Passes(c, pc) \/ Finds(c, pc) \/ Revokes(c) \/ Issues(c)
  BY AuthStepIs DEF Steps
<1>2. Live(c) /\ tasks[c] \in Task /\ TaskInv(c) /\ Grows
  BY AuthStepIs, AuthStepGrows, LiveTask DEF AuthInv
<1>3. PICK step, answer : step \in Steps /\ Turns(c, step, answer, tasks[c].awaited)
  BY <1>1 DEF Passes, Finds, Revokes, Issues, Steps
<1>4. /\ \A n : n \in Tokens => n \in Tokens' /\ Owner(n)' = Owner(n)
      /\ Owner(None)' = Owner(None)
  BY <1>2, GrowthKeeps DEF Owner
<1>5. SessionsExist'
  BY <1>4 DEF AuthInv, SessionsExist
<1>6. ASSUME NEW d \in Callers \ {c} PROVE TaskInv(d)'
  <2>1. tasks'[d] = tasks[d] /\ TaskInv(d)
    BY <1>3 DEF Turns, AuthInv
  <2>2. QED
    BY <1>4, <2>1 DEF TaskInv, Live
<1>7. ASSUME NEW t \in Tabs PROVE KindInv(t)'
  BY <1>2, <1>3, CallersOfTabs DEF Turns, AuthInv, KindInv, Live
<1>8. TaskInv(c)'
  <2>1. CASE Passes(c, pc)
    BY <1>2, <1>4, <2>1 DEF Passes, Turns, TaskInv
  <2>2. CASE Finds(c, pc)
    BY <1>2, <1>4, <2>2 DEF Finds, Turns, TaskInv
  <2>3. CASE Revokes(c)
    BY <1>2, <1>4, <2>3 DEF Revokes, Turns, TaskInv
  <2>4. CASE Issues(c)
    <3>1. PICK n, u, l : /\ n = tasks[c].token /\ l = Len(tokens')
                         /\ u = IF n = None THEN tasks[c].user ELSE tokens[n].user
      OBVIOUS
    <3>2. /\ Turns(c, "done", l, tasks[c].awaited)
          /\ tokens' = Append(tokens, [user |-> u, from |-> n, revoked |-> FALSE])
      BY <2>4, <3>1 DEF Issues
    <3>3. l \in Tokens' /\ l # 0 /\ tokens'[l].user = u
      BY <3>1, <3>2 DEF Typed, Tokens
    <3>4. Owner(l)' = u
      BY <3>3 DEF Owner, None
    <3>5. tasks[c].kind = "refresh" => n \in Tokens /\ u = Owner(n)
      BY <1>2, <3>1 DEF TaskInv, Owner, None, Tokens
    <3>6. tasks[c].kind # "refresh" => n = None /\ u = tasks[c].user
      BY <1>2, <3>1 DEF TaskInv
    <3>7. QED
      BY <1>4, <3>1, <3>2, <3>3, <3>4, <3>5, <3>6 DEF Turns, TaskInv
  <2>5. QED
    BY <1>1, <2>1, <2>2, <2>3, <2>4
<1>9. QED
  BY <1>3, <1>5, <1>6, <1>7, <1>8 DEF AuthInv, Turns

(* What a tab does, one of BrowserStep's actions.                          *)
TabStep(t) ==
  \/ \E u \in Users, kind \in {"register", "login"} : Submit(t, kind, u)
  \/ FormAnswered(t) \/ SignOut(t) \/ Request(t) \/ RequestRefused(t)
  \/ RefreshAnswered(t) \/ GatewayTimeout(t) \/ NetworkError(t)
  \/ Reload(t)

TabEffect == /\ AtBrowser /\ UNCHANGED <<database, clock, userVars>>
             /\ Typed' /\ SessionsExist'

(* What a tab does leaves auth-service's rows as they are.                 *)
LEMMA TabStepIs ==
  ASSUME Typed, AuthInv, NEW t \in Tabs, TabStep(t)
  PROVE  TabEffect
<1>0. /\ Form(t) \in Callers /\ Refresh(t) \in Callers
      /\ TaskInv(Form(t)) /\ TaskInv(Refresh(t)) /\ KindInv(t)
      /\ Tokens \subseteq Nat
  BY CallersOfTabs DEF AuthInv, Tokens
<1>1. /\ \A c \in Callers : Live(c) => tasks[c] \in Task
      /\ \A c \in Callers : Live(c) /\ tasks[c].pc = "done" => tasks[c].answer \in Tokens
      /\ \A c \in Callers : Live(c) => tasks[c].answer \in Tokens \cup {None}
  BY LiveTask DEF AuthInv, TaskInv
<1>2. ASSUME AtBrowser, UNCHANGED <<database, clock, userVars>>,
             memory' \in [Tabs -> Tokens \cup {None}], stored' \in Tokens \cup {None},
             meant' \in [Tabs -> Users \cup {Nobody}], sent' \in [Tabs -> Nat]
      PROVE  TabEffect
  <2>1. Tokens' = Tokens
    BY <1>2 DEF database, Tokens
  <2>2. tasks' \in [Callers -> {IdleTask} \cup Task]
    BY <1>2, Carries DEF Carried
  <2>3. memory' \in [Tabs -> Nat] /\ stored' \in Nat
    <3>1. \A n \in Tokens \cup {None} : n \in Nat
      BY <1>0 DEF None
    <3>2. QED
      BY <1>2, <3>1
  <2>4. UNCHANGED <<tokens, stale, expired>>
    BY <1>2 DEF database, clock
  <2>5. Typed'
    BY <1>2, <2>2, <2>3, <2>4 DEF Typed
  <2>6. SessionsExist'
    BY <1>2, <2>1 DEF SessionsExist
  <2>7. QED
    BY <1>2, <2>5, <2>6 DEF TabEffect
<1>3. /\ memory \in [Tabs -> Tokens \cup {None}] /\ stored \in Tokens \cup {None}
      /\ meant \in [Tabs -> Users \cup {Nobody}] /\ sent \in [Tabs -> Nat]
  BY DEF AuthInv, SessionsExist, Typed
<1>4. ASSUME NEW c \in Callers, Ends(c) PROVE AtBrowser
  BY <1>4 DEF AtBrowser
<1>5. ASSUME NEW c \in Callers, Live(c), Unheard(c) PROVE AtBrowser
  <2>1. Leaves({c})
    BY <1>5 DEF Unheard, Leaves, Typed
  <2>2. QED
    BY <2>1 DEF AtBrowser
<1>6. ASSUME NEW u \in Users, NEW kind \in {"register", "login"}, Submit(t, kind, u)
      PROVE  TabEffect
  <2>1. Given(Form(t), kind, None) /\ Begins(Form(t), kind, u, None)
    <3>1. Given(Form(t), kind, None)
      BY DEF Given
    <3>2. Begins(Form(t), kind, u, None)
      BY <1>6 DEF Submit, Start, Begins, Live
    <3>3. QED
      BY <3>1, <3>2
  <2>2. AtBrowser
    BY <1>0, <2>1 DEF AtBrowser
  <2>3. QED
    BY <1>2, <1>3, <1>6, <2>2 DEF Submit, Start, browser
<1>7. CASE FormAnswered(t)
  <2>1. Ends(Form(t)) /\ Live(Form(t))
    BY <1>7 DEF FormAnswered, Ends, Ended, Live
  <2>2. AtBrowser
    BY <1>0, <1>4, <2>1
  <2>3. CASE tasks[Form(t)].pc = "done"
    <3>1. tasks[Form(t)].answer \in Tokens /\ tasks[Form(t)].user \in Users
      BY <1>0, <1>1, <2>1, <2>3 DEF Task
    <3>2. QED
      BY <1>2, <1>3, <1>7, <2>2, <2>3, <3>1 DEF FormAnswered, Keep, Mean
  <2>4. CASE tasks[Form(t)].pc # "done"
    BY <1>2, <1>3, <1>7, <2>2, <2>4 DEF FormAnswered
  <2>5. QED
    BY <2>3, <2>4
<1>8. CASE SignOut(t)
  BY <1>2, <1>3, <1>8 DEF SignOut, Keep, Mean, authVars, AtBrowser
<1>9. CASE Request(t)
  <2>1. memory[t] \in Nat
    BY DEF Typed
  <2>2. QED
    BY <1>2, <1>3, <1>9, <2>1 DEF Request, authVars, AtBrowser
<1>10. CASE RequestRefused(t)
  <2>1. sent' \in [Tabs -> Nat] /\ UNCHANGED <<userVars, meant>>
    BY <1>3, <1>10 DEF RequestRefused, None
  <2>2. CASE Refreshing(t)
    BY <1>2, <1>3, <1>10, <2>1, <2>2 DEF RequestRefused, authVars, AtBrowser
  <2>3. CASE memory[t] = None /\ ~Refreshing(t)
    BY <1>2, <1>3, <1>10, <2>1, <2>3 DEF RequestRefused, Keep, authVars, AtBrowser
  <2>4. CASE memory[t] # None /\ ~Refreshing(t)
    <3>1. /\ Start(Refresh(t), "refresh", Owner(memory[t]), memory[t])
          /\ UNCHANGED <<memory, stored>>
      BY <1>10, <2>4 DEF RequestRefused
    <3>2. memory[t] \in Tokens /\ Owner(memory[t]) \in Users
      <4>1. memory[t] \in Tokens
        BY <1>3, <2>4
      <4>2. tokens[memory[t]] \in Token
        BY <4>1 DEF Typed, Tokens
      <4>3. QED
        BY <2>4, <4>1, <4>2 DEF Owner, Token
    <3>3. /\ Given(Refresh(t), "refresh", memory[t])
          /\ Begins(Refresh(t), "refresh", Owner(memory[t]), memory[t])
      BY <3>1, <3>2 DEF Start, Given, Begins, Live
    <3>4. AtBrowser
      BY <1>0, <3>2, <3>3 DEF AtBrowser
    <3>5. QED
      BY <1>2, <1>3, <2>1, <3>1, <3>4 DEF Start
  <2>5. QED
    BY <2>2, <2>3, <2>4
<1>11. CASE RefreshAnswered(t)
  <2>1. Ends(Refresh(t)) /\ Live(Refresh(t))
    BY <1>11 DEF RefreshAnswered, Ends, Ended, Live
  <2>2. AtBrowser /\ tasks[Refresh(t)].answer \in Tokens \cup {None}
    BY <1>0, <1>1, <1>4, <2>1
  <2>3. QED
    BY <1>2, <1>3, <1>11, <2>2 DEF RefreshAnswered, Keep
<1>12. CASE GatewayTimeout(t) \/ NetworkError(t)
  <2>1. Live(Refresh(t)) /\ Unheard(Refresh(t))
    BY <1>12 DEF GatewayTimeout, NetworkError, Refreshing, Live
  <2>2. AtBrowser
    BY <1>0, <1>5, <2>1
  <2>3. QED
    BY <1>2, <1>3, <1>12, <2>1, <2>2 DEF GatewayTimeout, NetworkError, Unheard, Keep,
       browser
<1>13. CASE Reload(t)
  <2> DEFINE pending == {c \in {Form(t), Refresh(t)} : tasks[c].pc # "idle"
                                                  /\ tasks[c].awaited}
  <2>1. Leaves(pending) /\ pending \in SUBSET Callers
    BY <1>0, <1>13 DEF Reload, Leaves, Live
  <2>2. AtBrowser
    BY <2>1 DEF AtBrowser
  <2>3. Owner(stored) \in Users \cup {Nobody}
    <3>1. stored \in Tokens => tokens[stored] \in Token
      BY DEF Typed, Tokens
    <3>2. QED
      BY <1>3, <3>1 DEF Owner, Token
  <2>4. QED
    BY <1>2, <1>3, <1>13, <2>2, <2>3 DEF Reload, None
<1>14. QED
  BY <1>6, <1>7, <1>8, <1>9, <1>10, <1>11, <1>12, <1>13 DEF TabStep

-----------------------------------------------------------------------------
(* Profiles                                                                *)

(* No tab cuts off a registration.                                         *)
LEMMA ProfileAtBrowser ==
  ASSUME Typed, ProfileInv, AtBrowser,
         UNCHANGED <<credentials, registered, profiles, edited>>
  PROVE  ProfileInv'
<1>1. ASSUME NEW c \in Callers, Under(c, "publish", {"register"})
      PROVE  Under(c, "publish", {"register"})' /\ tasks'[c].user = tasks[c].user
  BY <1>1, Carries DEF Carried, Stays, Under, Live, Ended
<1>2. ASSUME NEW u, Publishing(u) PROVE Publishing(u)'
  BY <1>1, <1>2 DEF Publishing
<1>3. QED
  BY <1>2 DEF ProfileInv, HasProfile

(* A credential is on its way to a profile while its registration is at    *)
(* work, unless its event is lost (register).                              *)
LEMMA ProfileAtWork ==
  ASSUME Typed, AuthInv, ProfileInv, NEW c \in Callers, AuthStep(c),
         UNCHANGED <<profiles, edited>>
  PROVE  ProfileInv'
<1>1. tasks[c] \in Task /\ tasks[c].user \in Users
      /\ \A d \in Callers \ {c} : tasks'[d] = tasks[d]
  <2>1. Live(c) /\ \E pc \in Steps : \E answer : Turns(c, pc, answer, tasks[c].awaited)
    BY AuthStepIs DEF Passes, Finds, Revokes, Issues, Steps
  <2>2. QED
    BY <2>1, LiveTask DEF Turns, Task
<1>2. ASSUME NEW u, Publishing(u), u # tasks[c].user
      PROVE  Publishing(u)'
  BY <1>1, <1>2 DEF Publishing, Under
<1>3. ASSUME registered' = [registered EXCEPT ![tasks[c].user] = "queued"]
               \/ registered' = [registered EXCEPT ![tasks[c].user] = "lost"],
             UNCHANGED credentials
      PROVE  ProfileInv'
  BY <1>1, <1>2, <1>3 DEF ProfileInv, HasProfile
<1>4. ASSUME ~Under(c, "publish", {"register"}), UNCHANGED <<registered, credentials>>
      PROVE  ProfileInv'
  <2>1. \A u : Publishing(u) => Publishing(u)'
    BY <1>1, <1>4 DEF Publishing, Under
  <2>2. QED
    BY <1>4, <2>1 DEF ProfileInv, HasProfile
<1>5. CASE FindUser(c) \/ FindToken(c) \/ RevokeRefreshToken(c) \/ CreateSession(c)
  BY <1>4, <1>5 DEF FindUser, FindToken, RevokeRefreshToken, CreateSession, Under,
     database
<1>6. CASE CreateUserCredential(c)
  <2>1. ~Under(c, "publish", {"register"})
        /\ UNCHANGED registered /\ credentials' = credentials \cup {tasks[c].user}
    BY <1>6 DEF CreateUserCredential, Under
  <2>2. CASE tasks[c].user \in credentials
    BY <1>4, <2>1, <2>2
  <2>3. CASE tasks[c].user \notin credentials
    <3>1. tasks'[c].pc = "publish" /\ tasks'[c].kind = "register"
          /\ tasks'[c].user = tasks[c].user
      BY <1>1, <1>6, <2>3 DEF CreateUserCredential, Goto, Under, Typed, Task
    <3>2. Publishing(tasks[c].user)'
      BY <3>1 DEF Publishing, Under
    <3>3. ASSUME NEW u \in credentials'
          PROVE  \/ HasProfile(u)'
                 \/ registered'[u] \in {"queued", "lost"}
                 \/ Publishing(u)'
      <4>1. CASE u = tasks[c].user
        BY <3>1, <3>2, <4>1
      <4>2. CASE u # tasks[c].user
        BY <1>2, <2>1, <4>2 DEF ProfileInv, HasProfile
      <4>3. QED
        BY <4>1, <4>2
    <3>4. QED
      BY <1>1, <2>1, <3>3 DEF ProfileInv, HasProfile
  <2>4. QED
    BY <2>2, <2>3
<1>7. CASE PublishUserRegistered(c)
  BY <1>3, <1>7 DEF PublishUserRegistered
<1>8. CASE Fail(c) \/ StopAndRedeliver(c)
  <2>1. UNCHANGED credentials /\ CutOff(c)
    BY <1>8 DEF Fail, StopAndRedeliver
  <2>2. QED
    BY <1>3, <1>4, <2>1 DEF CutOff
<1>9. QED
  BY <1>5, <1>6, <1>7, <1>8 DEF AuthStep

(* user-service makes the profile when the event comes, and never          *)
(* overwrites an edited one (createInitialProfile).                        *)
LEMMA ProfileAtUsers ==
  ASSUME Typed, AuthInv, ProfileInv,
         \/ HandleRegistered
         \/ \E t \in Tabs : EditProfile(t)
         \/ \E t \in Tabs, w \in Writers, isDefault \in BOOLEAN :
              AddAddress(t, w, isDefault)
         \/ AddressStep
  PROVE  ProfileInv'
<1>1. ASSUME HandleRegistered PROVE ProfileInv'
  <2>1. UNCHANGED <<credentials, tasks>>
        /\ \E u \in Users : CreateInitialProfile(u) \/ DropEvent(u)
    BY <1>1 DEF HandleRegistered
  <2>2. ASSUME NEW u \in Users, CreateInitialProfile(u) PROVE ProfileInv'
    <3>1. /\ profiles' = [profiles EXCEPT ![u] = Upserted(profiles[u])]
          /\ UNCHANGED edited
          /\ \E status \in {"handled", "again"} :
               registered' = [registered EXCEPT ![u] = status]
      BY <2>2 DEF CreateInitialProfile
    <3>2. QED
      BY <2>1, <3>1 DEF ProfileInv, HasProfile, Upserted, Publishing, Under
  <2>3. ASSUME NEW u \in Users, DropEvent(u) PROVE ProfileInv'
    <3>1. registered' = [registered EXCEPT ![u] = "lost"]
          /\ UNCHANGED <<profiles, edited>>
      BY <2>3 DEF DropEvent, userVars
    <3>2. QED
      BY <2>1, <3>1 DEF ProfileInv, HasProfile, Publishing, Under
  <2>4. QED
    BY <2>1, <2>2, <2>3
<1>2. ASSUME NEW t \in Tabs, EditProfile(t) PROVE ProfileInv'
  <2> DEFINE u == Owner(memory[t])
  <2>1. HasProfile(u) /\ profiles' = [profiles EXCEPT ![u] = "edited"]
        /\ edited' = edited \cup {u} /\ UNCHANGED <<credentials, registered, tasks>>
    BY <1>2 DEF EditProfile, UpdateProfile, authVars, database
  <2>2. u \in Users
    <3>1. memory[t] # None /\ memory[t] \in Tokens
      BY <1>2 DEF EditProfile, Signed, AuthInv, SessionsExist
    <3>2. tokens[memory[t]] \in Token
      BY <3>1 DEF Typed, Tokens
    <3>3. QED
      BY <3>1, <3>2 DEF Owner, Token
  <2> HIDE DEF u
  <2>3. QED
    BY <2>1, <2>2 DEF ProfileInv, HasProfile, Publishing, Under
<1>3. ASSUME UNCHANGED <<credentials, registered, tasks, profiles, edited>>
      PROVE  ProfileInv'
  BY <1>3 DEF ProfileInv, HasProfile, Publishing, Under
<1>4. ASSUME NEW t \in Tabs, NEW w \in Writers, NEW isDefault \in BOOLEAN,
             AddAddress(t, w, isDefault)
      PROVE  ProfileInv'
  BY <1>3, <1>4 DEF AddAddress, CreateAddress, authVars, database
<1>5. ASSUME AddressStep PROVE ProfileInv'
  BY <1>3, <1>5 DEF AddressStep, ClearDefaults, InsertAddress, RollBack, authVars,
     database
<1>6. QED
  BY <1>1, <1>2, <1>4, <1>5

-----------------------------------------------------------------------------
(* Addresses                                                               *)

(* Addresses depend on no more than their rows and transactions.           *)
LEMMA AddressKept ==
  ASSUME AddressInv, UNCHANGED <<addresses, writers, crossed>>
  PROVE  AddressInv'
BY DEF AddressInv, Defaults, AddressesOf, Inserts

(* A command for an address changes no address yet.                        *)
LEMMA AddressAtCommand ==
  ASSUME Typed, AuthInv, AddressInv, NEW t \in Tabs, NEW w \in Writers,
         NEW isDefault \in BOOLEAN, AddAddress(t, w, isDefault)
  PROVE  AddressInv'
<1> DEFINE u == Owner(memory[t])
           writer == [pc |-> IF isDefault THEN "clear" ELSE "insert", user |-> u,
                      isDefault |-> isDefault, cleared |-> {}]
<1>1. writers' = [writers EXCEPT ![w] = writer] /\ UNCHANGED <<addresses, crossed>>
  BY DEF AddAddress, CreateAddress
<1>2. u \in Users
  <2>1. memory[t] # None /\ memory[t] \in Tokens
    BY DEF AddAddress, Signed, AuthInv, SessionsExist
  <2>2. tokens[memory[t]] \in Token
    BY <2>1 DEF Typed, Tokens
  <2>3. QED
    BY <2>1, <2>2 DEF Owner, Token
<1> HIDE DEF u
<1>3. /\ writer \in Writer /\ writer.pc \in {"clear", "insert"}
      /\ writer.isDefault = isDefault
      /\ writer.pc = "clear" <=> isDefault
  BY <1>2 DEF Writer
<1> HIDE DEF writer
<1>4. ASSUME NEW x \in Writers, NEW v, Inserts(x, v)'
      PROVE  Inserts(x, v) /\ writers'[x] = writers[x]
  BY <1>1, <1>3, <1>4 DEF AddressInv, Inserts
<1>5. \A v : Defaults(v)' = Defaults(v)
  BY <1>1 DEF Defaults, AddressesOf
<1>6. /\ writers' \in [Writers -> {NoWriter} \cup Writer]
      /\ \A x \in Writers : writers'[x].pc = "clear" => writers'[x].isDefault
  BY <1>1, <1>3 DEF AddressInv
<1>7. QED
  BY <1>1, <1>4, <1>5, <1>6 DEF AddressInv

(* A transaction that inserts a default address has taken the default from *)
(* every address it did not see made at once (createAddress).              *)
LEMMA AddressAtStep ==
  ASSUME AddressInv, AddressStep
  PROVE  AddressInv'
<1>1. PICK w \in Writers : ClearDefaults(w) \/ InsertAddress(w) \/ RollBack(w)
  BY DEF AddressStep, Busy
<1>2. CASE RollBack(w)
  <2>1. writers' = [writers EXCEPT ![w] = NoWriter] /\ UNCHANGED <<addresses, crossed>>
    BY <1>2 DEF RollBack
  <2>2. QED
    BY <2>1 DEF AddressInv, Defaults, AddressesOf, Inserts, NoWriter
<1>3. CASE ClearDefaults(w)
  <2> DEFINE u == writers[w].user
             rivals == {x \in Busy \ {w} : /\ writers[x].pc = "insert"
                                           /\ writers[x].isDefault
                                           /\ writers[x].user = u}
             writer == [writers[w] EXCEPT !.pc = "insert", !.cleared = AddressesOf(u)]
  <2>1. writers[w] \in Writer /\ writers[w].isDefault /\ AddressesOf(u) \subseteq Nat
    BY <1>3 DEF ClearDefaults, AddressInv, NoWriter, AddressesOf
  <2>2. writer \in Writer /\ writer.pc = "insert" /\ writer.isDefault
        /\ writer.user = u /\ writer.cleared = AddressesOf(u)
    BY <2>1 DEF Writer
  <2>3. /\ writers' = [writers EXCEPT ![w] = writer]
        /\ crossed' = IF rivals = {} THEN crossed ELSE crossed \cup {u}
        /\ UNCHANGED addresses
    BY <1>3 DEF ClearDefaults, AddressInv
  <2>4. ASSUME rivals = {}, NEW x \in Writers \ {w}
        PROVE  ~Inserts(x, u)
    BY <2>4 DEF Inserts, Busy
  <2>5. Defaults(u) \subseteq AddressesOf(u) /\ \A v : Defaults(v)' = Defaults(v)
    BY <2>3 DEF Defaults, AddressesOf
  <2> HIDE DEF u, rivals, writer
  <2>6. ASSUME NEW x \in Writers, NEW v, Inserts(x, v)'
        PROVE  IF x = w THEN v = u ELSE Inserts(x, v) /\ writers'[x] = writers[x]
    BY <2>2, <2>3, <2>6 DEF AddressInv, Inserts
  <2>7. /\ writers' \in [Writers -> {NoWriter} \cup Writer]
        /\ \A x \in Writers : writers'[x].pc = "clear" => writers'[x].isDefault
        /\ writers'[w] = writer
    BY <2>2, <2>3 DEF AddressInv
  <2>8. ASSUME NEW v \in Users \ crossed'
        PROVE  /\ \A i, j \in Defaults(v)' : i = j
               /\ \A x \in Writers : Inserts(x, v)' => Defaults(v)' \subseteq writers'[x].cleared
               /\ \A x, y \in Writers : Inserts(x, v)' /\ Inserts(y, v)' => x = y
    <3>1. v \in Users \ crossed /\ (v = u => rivals = {})
      BY <2>3, <2>8
    <3>2. CASE v = u
      BY <2>2, <2>4, <2>5, <2>6, <2>7, <3>1, <3>2 DEF AddressInv
    <3>3. CASE v # u
      BY <2>5, <2>6, <3>1, <3>3 DEF AddressInv
    <3>4. QED
      BY <3>2, <3>3
  <2>9. QED
    BY <2>3, <2>7, <2>8 DEF AddressInv
<1>4. CASE InsertAddress(w)
  <2> DEFINE row == [user : Users, isDefault : BOOLEAN]
             new == [user |-> writers[w].user, isDefault |-> writers[w].isDefault]
             old == [i \in DOMAIN addresses |->
                       IF i \in writers[w].cleared
                       THEN [addresses[i] EXCEPT !.isDefault = FALSE]
                       ELSE addresses[i]]
             l == Len(addresses) + 1
  <2>1. writers[w] \in Writer /\ new \in row
    BY <1>4 DEF InsertAddress, AddressInv, NoWriter, Writer
  <2>2. /\ addresses' = Append(old, new) /\ UNCHANGED crossed
        /\ writers' = [writers EXCEPT ![w] = NoWriter]
    BY <1>4 DEF InsertAddress
  <2>3. /\ \A i \in 1..Len(addresses) : addresses[i] \in row
        /\ DOMAIN addresses = 1..Len(addresses) /\ Len(addresses) \in Nat
    <3>1. addresses \in Seq(row)
      BY DEF AddressInv
    <3> HIDE DEF row
    <3>2. QED
      BY <3>1
  <2>4. /\ old \in Seq(row) /\ Len(old) = Len(addresses)
        /\ \A i \in 1..Len(addresses) :
             /\ old[i].user = addresses[i].user
             /\ old[i].isDefault => addresses[i].isDefault /\ i \notin writers[w].cleared
    <3>1. \A i \in 1..Len(addresses) :
             /\ [addresses[i] EXCEPT !.isDefault = FALSE] \in row
             /\ old[i] \in row
             /\ old[i].user = addresses[i].user
             /\ old[i].isDefault => addresses[i].isDefault /\ i \notin writers[w].cleared
      BY <2>3
    <3>2. old \in [1..Len(addresses) -> row]
      BY <2>3, <3>1
    <3>3. old \in Seq(row) /\ Len(old) = Len(addresses)
      BY <2>3, <3>2
    <3>4. QED
      BY <3>1, <3>3
  <2> HIDE DEF old, row
  <2>5. /\ addresses' \in Seq(row) /\ DOMAIN addresses' = 1..l
        /\ addresses'[l] = new
        /\ \A i \in 1..Len(addresses) : addresses'[i] = old[i]
    BY <2>1, <2>2, <2>3, <2>4
  <2>6. ASSUME NEW v, NEW i \in Defaults(v)'
        PROVE  \/ i \in Defaults(v) /\ i \notin writers[w].cleared
               \/ i = l /\ writers[w].user = v /\ writers[w].isDefault
    <3>1. i \in 1..l /\ addresses'[i].user = v /\ addresses'[i].isDefault
      BY <2>5, <2>6 DEF Defaults, AddressesOf
    <3>2. CASE i = l
      BY <2>5, <3>1, <3>2
    <3>3. CASE i # l
      BY <2>3, <2>4, <2>5, <3>1, <3>3 DEF Defaults, AddressesOf
    <3>4. QED
      BY <3>2, <3>3
  <2>7. ASSUME NEW x \in Writers, NEW v, Inserts(x, v)'
        PROVE  x # w /\ Inserts(x, v) /\ writers'[x] = writers[x]
    BY <2>2, <2>7 DEF AddressInv, Inserts, NoWriter
  <2>8. /\ writers' \in [Writers -> {NoWriter} \cup Writer]
        /\ \A x \in Writers : writers'[x].pc = "clear" => writers'[x].isDefault
    BY <2>2 DEF AddressInv, NoWriter
  <2>9. writers[w].isDefault => Inserts(w, writers[w].user)
    BY <1>4 DEF InsertAddress, Inserts
  <2> HIDE DEF l, new
  <2>10. ASSUME NEW v \in Users \ crossed
         PROVE  /\ \A i, j \in Defaults(v)' : i = j
                /\ \A x \in Writers : Inserts(x, v)' => Defaults(v)' \subseteq writers'[x].cleared
                /\ \A x, y \in Writers : Inserts(x, v)' /\ Inserts(y, v)' => x = y
    <3>1. CASE Inserts(w, v)
      BY <2>6, <2>7, <3>1 DEF AddressInv
    <3>2. CASE ~Inserts(w, v)
      BY <2>6, <2>7, <2>9, <3>2 DEF AddressInv
    <3>3. QED
      BY <3>1, <3>2
  <2>11. QED
    BY <2>2, <2>5, <2>8, <2>10 DEF AddressInv, row
<1>5. QED
  BY <1>1, <1>2, <1>3, <1>4

-----------------------------------------------------------------------------
(* Whose session a tab has                                                 *)

(* A tab's step leaves the other tabs alone.                               *)
LEMMA TabStepLocal ==
  ASSUME Typed, NEW t \in Tabs, TabStep(t), NEW x \in Tabs \ {t}
  PROVE  /\ memory'[x] = memory[x] /\ meant'[x] = meant[x]
         /\ x \in overtaken' <=> x \in overtaken
         /\ tasks'[Refresh(x)] = tasks[Refresh(x)]
<1> USE CallersOfTabs
<1>1. CASE \E u \in Users, kind \in {"register", "login"} : Submit(t, kind, u)
  BY <1>1 DEF Submit, Start, Typed, browser, causes
<1>2. CASE FormAnswered(t)
  BY <1>2 DEF FormAnswered, Keep, Mean, Typed
<1>3. CASE SignOut(t)
  BY <1>3 DEF SignOut, Keep, Mean, authVars
<1>4. CASE Request(t)
  BY <1>4 DEF Request, authVars, causes
<1>5. CASE RequestRefused(t)
  BY <1>5 DEF RequestRefused, Keep, Start, authVars, causes, Typed
<1>6. CASE RefreshAnswered(t)
  BY <1>6 DEF RefreshAnswered, Keep, causes, Typed
<1>7. CASE GatewayTimeout(t) \/ NetworkError(t)
  BY <1>7 DEF GatewayTimeout, NetworkError, Unheard, Keep, browser, Typed
<1>8. CASE Reload(t)
  BY <1>8 DEF Reload, Typed
<1>9. QED
  BY <1>1, <1>2, <1>3, <1>4, <1>5, <1>6, <1>7, <1>8 DEF TabStep

(* A tab's step gives it no session but its user's, unless the user has    *)
(* signed in or out during a refresh.                                      *)
LEMMA SessionAtTab ==
  ASSUME Typed, AuthInv, NEW t \in Tabs, TabStep(t),
         \A x \in Tabs : SessionInv(x)
  PROVE  \A x \in Tabs : SessionInv(x)'
<1>1. UNCHANGED tokens /\ \A n : Owner(n)' = Owner(n)
  BY TabStepIs DEF TabEffect, database, Owner
<1>2. ASSUME NEW x \in Tabs \ {t} PROVE SessionInv(x)'
  BY <1>1, <1>2, TabStepLocal DEF SessionInv, Refreshing
<1>3. /\ Form(t) \in Callers /\ Refresh(t) \in Callers /\ Form(t) # Refresh(t)
      /\ TaskInv(Form(t)) /\ TaskInv(Refresh(t)) /\ KindInv(t) /\ SessionInv(t)
  BY CallersOfTabs DEF AuthInv
<1>4. SessionInv(t)'
  <2>1. CASE \E u \in Users, kind \in {"register", "login"} : Submit(t, kind, u)
    BY <1>1, <1>3, <2>1 DEF Submit, Start, browser, causes, Typed, SessionInv, Refreshing
  <2>2. CASE FormAnswered(t)
    <3>1. Live(Form(t)) /\ UNCHANGED <<tokens>> /\ tasks'[Refresh(t)] = tasks[Refresh(t)]
      BY <1>1, <1>3, <2>2 DEF FormAnswered, Ended, Live, Typed
    <3>2. CASE tasks[Form(t)].pc = "done"
      <4>1. Owner(tasks[Form(t)].answer) = tasks[Form(t)].user
        BY <1>3, <3>1, <3>2 DEF TaskInv, KindInv
      <4>2. /\ memory'[t] = tasks[Form(t)].answer
            /\ meant'[t] = tasks[Form(t)].user
            /\ Refreshing(t) => t \in overtaken'
        BY <2>2, <3>2 DEF FormAnswered, Keep, Mean, Typed
      <4>3. QED
        BY <1>1, <3>1, <4>1, <4>2 DEF SessionInv, Refreshing
    <3>3. CASE tasks[Form(t)].pc # "done"
      BY <1>1, <1>3, <2>2, <3>1, <3>3 DEF FormAnswered, SessionInv, Refreshing
    <3>4. QED
      BY <3>2, <3>3
  <2>3. CASE SignOut(t)
    BY <1>1, <2>3 DEF SignOut, Keep, Mean, authVars, SessionInv, Refreshing, Typed
  <2>4. CASE Request(t)
    BY <1>1, <1>3, <2>4 DEF Request, authVars, causes, SessionInv, Refreshing
  <2>5. CASE RequestRefused(t)
    <3>1. UNCHANGED <<meant, overtaken>>
      BY <2>5 DEF RequestRefused, causes
    <3>2. CASE Refreshing(t)
      BY <1>1, <1>3, <2>5, <3>1, <3>2 DEF RequestRefused, authVars, SessionInv, Refreshing
    <3>3. CASE memory[t] = None /\ ~Refreshing(t)
      BY <1>1, <1>3, <2>5, <3>1, <3>3 DEF RequestRefused, Keep, authVars, SessionInv,
         Refreshing, Typed
    <3>4. CASE memory[t] # None /\ ~Refreshing(t)
      <4>1. /\ Start(Refresh(t), "refresh", Owner(memory[t]), memory[t])
            /\ UNCHANGED <<memory, stored>>
        BY <2>5, <3>4 DEF RequestRefused
      <4>2. tasks'[Refresh(t)].token = memory[t]
        BY <1>3, <4>1 DEF Start, NewTask, Typed
      <4>3. QED
        BY <1>1, <1>3, <3>1, <3>4, <4>1, <4>2 DEF SessionInv
    <3>5. QED
      BY <3>2, <3>3, <3>4
  <2>6. CASE RefreshAnswered(t)
    <3>1. /\ Live(Refresh(t)) /\ Refreshing(t) /\ ~Refreshing(t)'
          /\ memory'[t] = tasks[Refresh(t)].answer /\ UNCHANGED <<meant, overtaken>>
      BY <1>3, <2>6 DEF RefreshAnswered, Ended, Live, Refreshing, IdleTask, Keep, causes,
         Typed
    <3>2. tasks[Refresh(t)].answer # None =>
            Owner(tasks[Refresh(t)].answer) = Owner(tasks[Refresh(t)].token)
      BY <1>3, <3>1 DEF TaskInv, KindInv
    <3>3. QED
      BY <1>1, <1>3, <3>1, <3>2 DEF SessionInv
  <2>7. CASE GatewayTimeout(t) \/ NetworkError(t)
    <3>1. /\ ~Refreshing(t)' /\ memory'[t] \in {memory[t], None}
          /\ UNCHANGED <<meant, overtaken>>
      BY <1>3, <2>7, LiveTask DEF GatewayTimeout, NetworkError, Unheard, Refreshing, Keep,
         browser, Typed, Live, Task
    <3>2. QED
      BY <1>1, <1>3, <3>1 DEF SessionInv
  <2>8. CASE Reload(t)
    <3>1. memory'[t] = stored /\ meant'[t] = Owner(stored)
      BY <2>8 DEF Reload, Typed
    <3>2. ~Refreshing(t)'
      <4>1. CASE Refreshing(t)
        <5>1. tasks'[Refresh(t)] = [tasks[Refresh(t)] EXCEPT !.awaited = FALSE]
          BY <1>3, <2>8, <4>1 DEF Reload, Refreshing
        <5>2. tasks[Refresh(t)] \in Task
          BY <1>3, <4>1, LiveTask DEF Refreshing, Live
        <5>3. QED
          BY <5>1, <5>2 DEF Refreshing, Task
      <4>2. CASE ~Refreshing(t)
        <5>1. tasks'[Refresh(t)] = tasks[Refresh(t)]
          BY <1>3, <2>8, <4>2 DEF Reload, Refreshing
        <5>2. QED
          BY <4>2, <5>1 DEF Refreshing
      <4>3. QED
        BY <4>1, <4>2
    <3>3. QED
      BY <1>1, <3>1, <3>2 DEF SessionInv
  <2>9. QED
    BY <2>1, <2>2, <2>3, <2>4, <2>5, <2>6, <2>7, <2>8 DEF TabStep
<1>5. QED
  BY <1>2, <1>4

(* Whatever auth-service does, a refresh is for the user it was.           *)
LEMMA SessionAtWork ==
  ASSUME Typed, AuthInv, NEW c \in Callers, AuthStep(c),
         UNCHANGED <<memory, meant, overtaken>>, \A t \in Tabs : SessionInv(t)
  PROVE  \A t \in Tabs : SessionInv(t)'
<1>1. PICK step, answer : step \in Steps /\ Turns(c, step, answer, tasks[c].awaited)
  <2>1. PICK pc \in Steps : Passes(c, pc) \/ Finds(c, pc) \/ Revokes(c) \/ Issues(c)
    BY AuthStepIs DEF Steps
  <2>2. QED
    BY <2>1 DEF Passes, Finds, Revokes, Issues, Steps
<1>2. Live(c) /\ Grows
  BY AuthStepIs, AuthStepGrows
<1>3. /\ \A n : n \in Tokens => Owner(n)' = Owner(n)
      /\ Owner(None)' = Owner(None)
  BY <1>2, GrowthKeeps DEF Owner
<1>4. ASSUME NEW t \in Tabs PROVE SessionInv(t)'
  <2>1. Refresh(t) \in Callers /\ TaskInv(Refresh(t)) /\ KindInv(t) /\ SessionInv(t)
        /\ memory[t] \in Tokens \cup {None}
    BY CallersOfTabs DEF AuthInv, SessionsExist
  <2>2. /\ Refreshing(t)' => Refreshing(t)
        /\ Refreshing(t) => tasks'[Refresh(t)].token = tasks[Refresh(t)].token
                            /\ tasks[Refresh(t)].token \in Tokens
    BY <1>1, <1>2, <2>1 DEF Turns, Refreshing, TaskInv, KindInv, Live
  <2>3. PICK m, n : m = memory[t] /\ n = tasks[Refresh(t)].token
    OBVIOUS
  <2>4. Owner(m)' = Owner(m) /\ (Refreshing(t) => Owner(n)' = Owner(n))
    BY <1>3, <2>1, <2>2, <2>3
  <2>5. /\ m = None \/ Owner(m)' = meant'[t] \/ t \in overtaken'
        /\ Refreshing(t) => Owner(n)' = meant'[t] \/ t \in overtaken'
    BY <2>1, <2>3, <2>4 DEF SessionInv
  <2>6. m = memory'[t] /\ (Refreshing(t) => n = tasks'[Refresh(t)].token)
    BY <2>2, <2>3
  <2>7. QED
    BY <2>2, <2>5, <2>6 DEF SessionInv
<1>5. QED
  BY <1>4

-----------------------------------------------------------------------------
(* Where tokens are                                                        *)

(* What a tab's step does to sessions and refreshes: the session it comes  *)
(* to has been forfeited, was the tab's before, or is new to everyone; and *)
(* a refresh that is no longer waited for forfeits its token.              *)
Fresh(n) == /\ n # None /\ ~tokens[n].revoked
            /\ \A x \in Tabs : memory[x] # n /\ ~Refreshes(x, n)

Moved(t) ==
  /\ \A x \in Tabs \ {t} : /\ memory'[x] = memory[x]
                           /\ tasks'[Refresh(x)] = tasks[Refresh(x)]
  /\ forfeit \subseteq forfeit'
  /\ \/ memory'[t] \in forfeit' \cup {None, memory[t]}
     \/ Fresh(memory'[t])
  /\ \/ tasks'[Refresh(t)] = tasks[Refresh(t)]
     \/ Stays(Refresh(t)) /\ tasks[Refresh(t)].token \in forfeit'
     \/ /\ ~Live(Refresh(t)) /\ memory'[t] = memory[t] /\ memory[t] # None
        /\ tasks'[Refresh(t)] = NewTask("refresh", Owner(memory[t]), memory[t])
     \/ ~Live(Refresh(t))' /\ (memory'[t] = None \/ Fresh(memory'[t]))

(* A tab that moves so leaves every other with tokens of its own.          *)
LEMMA LineageAtMove ==
  ASSUME Typed, AuthInv, \A x \in Tabs : LineageInv(x), NEW t \in Tabs, Moved(t),
         UNCHANGED <<tokens, expired>>
  PROVE  \A x \in Tabs : LineageInv(x)'
<1>1. /\ \A x \in Tabs : Refreshes(x, None) = FALSE
      /\ \A x \in Tabs \ {t} : \A n : Refreshes(x, n)' = Refreshes(x, n)
      /\ \A n : n \notin forfeit' => n \notin forfeit
  <2>1. ASSUME NEW x \in Tabs, Live(Refresh(x)) PROVE tasks[Refresh(x)].token # None
    BY <2>1, CallersOfTabs DEF AuthInv, TaskInv, KindInv, Tokens, None
  <2>2. QED
    BY <2>1 DEF Refreshes, Moved, Live
<1>2. ASSUME NEW x \in Tabs \ {t} PROVE LineageInv(x)'
  <2>1. memory'[x] = memory[x] /\ tasks'[Refresh(x)] = tasks[Refresh(x)]
        /\ LineageInv(x) /\ LineageInv(t)
        /\ \A y \in Tabs \ {t} : memory'[y] = memory[y]
    BY DEF Moved
  <2>2. ASSUME memory[x] \notin forfeit' \cup {None} PROVE memory'[t] # memory[x]
    BY <1>1, <2>1, <2>2 DEF Moved, Fresh, LineageInv
  <2>3. ASSUME Live(Refresh(x)), tasks[Refresh(x)].token \notin forfeit'
        PROVE  memory'[t] # tasks[Refresh(x)].token
               /\ ~Refreshes(t, tasks[Refresh(x)].token)'
    <3>1. Refreshes(x, tasks[Refresh(x)].token) /\ tasks[Refresh(x)].token \notin forfeit
          /\ tasks[Refresh(x)].token # None
      BY <1>1, <2>3 DEF Refreshes
    <3>2. memory'[t] # tasks[Refresh(x)].token
      BY <2>1, <2>3, <3>1 DEF Moved, Fresh, LineageInv
    <3>3. ~Refreshes(t, tasks[Refresh(x)].token)'
      BY <2>1, <2>3, <3>1, <3>2 DEF Moved, LineageInv, Refreshes, Live, Stays, NewTask
    <3>4. QED
      BY <3>2, <3>3
  <2>4. QED
    BY <1>1, <2>1, <2>2, <2>3 DEF LineageInv, Live, Refreshes
<1>3. LineageInv(t)'
  <2>0. PICK m, n : m = memory'[t] /\ n = tasks'[Refresh(t)].token
    OBVIOUS
  <2>1. LineageInv(t) /\ \A x \in Tabs \ {t} : LineageInv(x)
    OBVIOUS
  <2>2. ASSUME m \notin forfeit' \cup {None}
        PROVE  /\ \A x \in Tabs \ {t} : memory'[x] # m
               /\ tokens[m].revoked =>
                    /\ Refreshes(t, m)'
                    /\ tasks'[Refresh(t)].pc \in {"issue", "done"}
    <3>1. CASE Fresh(m)
      BY <2>2, <3>1 DEF Moved, Fresh
    <3>2. CASE ~Fresh(m)
      <4>1. m = memory[t] /\ memory[t] \notin forfeit \cup {None}
        BY <1>1, <2>0, <2>2, <3>2 DEF Moved
      <4>2. \A x \in Tabs \ {t} : memory'[x] # m
        BY <2>1, <4>1 DEF Moved, LineageInv
      <4>3. ASSUME tokens[m].revoked
            PROVE  Refreshes(t, m)' /\ tasks'[Refresh(t)].pc \in {"issue", "done"}
        <5>1. Refreshes(t, m) /\ tasks[Refresh(t)].pc \in {"issue", "done"}
          BY <2>1, <4>1, <4>3 DEF LineageInv
        <5>2. tasks'[Refresh(t)] = tasks[Refresh(t)] \/ Stays(Refresh(t))
          BY <2>0, <2>2, <3>2, <4>1, <5>1 DEF Moved, Refreshes
        <5>3. QED
          BY <5>1, <5>2 DEF Refreshes, Live, Stays
      <4>4. QED
        BY <4>2, <4>3
    <3>3. QED
      BY <3>1, <3>2
  <2>3. ASSUME Live(Refresh(t))', n \notin forfeit'
        PROVE  /\ tasks'[Refresh(t)].awaited
               /\ \A x \in Tabs \ {t} : memory'[x] # n /\ ~Refreshes(x, n)'
               /\ tasks'[Refresh(t)].pc = "find" => ~tokens[n].revoked
               /\ tasks'[Refresh(t)].pc = "refused" => n <= expired
    <3>1. CASE tasks'[Refresh(t)] = tasks[Refresh(t)]
      BY <1>1, <2>0, <2>1, <2>3, <3>1 DEF LineageInv, Moved, Live
    <3>2. CASE /\ ~Live(Refresh(t)) /\ memory'[t] = memory[t] /\ memory[t] # None
               /\ tasks'[Refresh(t)] = NewTask("refresh", Owner(memory[t]), memory[t])
      <4>1. n = memory[t] /\ tasks'[Refresh(t)].awaited
            /\ tasks'[Refresh(t)].pc = "find"
        BY <2>0, <3>2 DEF NewTask
      <4>2. n \notin forfeit \cup {None}
        BY <1>1, <2>3, <3>2, <4>1
      <4>3. ~tokens[n].revoked /\ \A x \in Tabs \ {t} : memory[x] # n
        BY <2>1, <3>2, <4>1, <4>2 DEF LineageInv, Refreshes
      <4>4. \A x \in Tabs \ {t} : ~Refreshes(x, n)
        BY <2>1, <4>1, <4>2 DEF LineageInv, Refreshes
      <4>5. QED
        BY <1>1, <4>1, <4>3, <4>4 DEF Moved
    <3>3. QED
      BY <2>0, <2>3, <3>1, <3>2 DEF Moved, Stays
  <2>4. QED
    <3>1. LineageInv(t)' <=>
            /\ m \notin forfeit' \cup {None} =>
                 /\ \A x \in Tabs \ {t} : memory'[x] # m
                 /\ tokens[m].revoked =>
                      /\ Refreshes(t, m)'
                      /\ tasks'[Refresh(t)].pc \in {"issue", "done"}
            /\ Live(Refresh(t))' /\ n \notin forfeit' =>
                 /\ tasks'[Refresh(t)].awaited
                 /\ \A x \in Tabs \ {t} : memory'[x] # n /\ ~Refreshes(x, n)'
                 /\ tasks'[Refresh(t)].pc = "find" => ~tokens[n].revoked
                 /\ tasks'[Refresh(t)].pc = "refused" => n <= expired
      BY <2>0 DEF LineageInv, Refreshes, Live
    <3>2. QED
      BY <2>2, <2>3, <3>1
<1>4. QED
  BY <1>2, <1>3

(* An answer that nobody has heard is new to everyone.                     *)
LEMMA AnswerIsFresh ==
  ASSUME Typed, AuthInv, CauseInv, NEW c \in Callers, Live(c),
         tasks[c].answer # None
  PROVE  Fresh(tasks[c].answer)
BY CallersOfTabs DEF CauseInv, FreshInv, Fresh, Refreshes

(* Every step of a tab moves it so.                                        *)
LEMMA TabMoves ==
  ASSUME Typed, AuthInv, CauseInv, NEW t \in Tabs, TabStep(t)
  PROVE  Moved(t)
<1>1. \A x \in Tabs \ {t} : /\ memory'[x] = memory[x]
                            /\ tasks'[Refresh(x)] = tasks[Refresh(x)]
  BY TabStepLocal
<1>2. /\ Form(t) \in Callers /\ Refresh(t) \in Callers /\ Form(t) # Refresh(t)
      /\ LineageInv(t) /\ StoredInv
  BY CallersOfTabs DEF CauseInv
<1>3. ASSUME memory'[t] \in {None, memory[t]}, UNCHANGED forfeit,
             tasks'[Refresh(t)] = tasks[Refresh(t)]
      PROVE  Moved(t)
  BY <1>1, <1>3 DEF Moved
<1>4. CASE \E u \in Users, kind \in {"register", "login"} : Submit(t, kind, u)
  BY <1>2, <1>3, <1>4 DEF Submit, Start, browser, causes, Typed
<1>5. CASE FormAnswered(t)
  <2>1. tasks'[Refresh(t)] = tasks[Refresh(t)] /\ UNCHANGED forfeit
        /\ Live(Form(t))
    BY <1>2, <1>5 DEF FormAnswered, Typed, Ended, Live
  <2>2. CASE tasks[Form(t)].pc = "done"
    <3>1. memory'[t] = tasks[Form(t)].answer
      BY <1>5, <2>2 DEF FormAnswered, Keep, Typed
    <3>2. memory'[t] = None \/ Fresh(memory'[t])
      BY <1>2, <2>1, <3>1, AnswerIsFresh
    <3>3. QED
      BY <1>1, <2>1, <3>2 DEF Moved
  <2>3. CASE tasks[Form(t)].pc # "done"
    BY <1>3, <1>5, <2>1, <2>3 DEF FormAnswered
  <2>4. QED
    BY <2>2, <2>3
<1>6. CASE SignOut(t)
  BY <1>3, <1>6 DEF SignOut, Keep, authVars, Typed
<1>7. CASE Request(t)
  BY <1>3, <1>7 DEF Request, authVars, causes
<1>8. CASE RequestRefused(t)
  <2>1. CASE Refreshing(t)
    BY <1>3, <1>8, <2>1 DEF RequestRefused, authVars, causes
  <2>2. CASE memory[t] = None /\ ~Refreshing(t)
    BY <1>3, <1>8, <2>2 DEF RequestRefused, Keep, authVars, causes, Typed
  <2>3. CASE memory[t] # None /\ ~Refreshing(t)
    <3>1. /\ Start(Refresh(t), "refresh", Owner(memory[t]), memory[t])
          /\ UNCHANGED <<memory, forfeit>>
      BY <1>8, <2>3 DEF RequestRefused, causes
    <3>2. ~Live(Refresh(t)) /\ tasks'[Refresh(t)]
                               = NewTask("refresh", Owner(memory[t]), memory[t])
      BY <1>2, <3>1 DEF Start, Typed, Live
    <3>3. QED
      BY <1>1, <2>3, <3>1, <3>2 DEF Moved
  <2>4. QED
    BY <2>1, <2>2, <2>3
<1>9. CASE RefreshAnswered(t)
  <2>1. Live(Refresh(t)) /\ ~Live(Refresh(t))' /\ UNCHANGED forfeit
        /\ memory'[t] = tasks[Refresh(t)].answer
    BY <1>2, <1>9 DEF RefreshAnswered, Keep, causes, Typed, Ended, Live, IdleTask
  <2>2. memory'[t] = None \/ Fresh(memory'[t])
    BY <1>2, <2>1, AnswerIsFresh
  <2>3. QED
    BY <1>1, <2>1, <2>2 DEF Moved
<1>10. CASE GatewayTimeout(t) \/ NetworkError(t)
  <2>1. /\ Live(Refresh(t)) /\ memory'[t] \in {None, memory[t]}
        /\ tasks' = [tasks EXCEPT ![Refresh(t)].awaited = FALSE]
        /\ forfeit' = forfeit \cup ({tasks[Refresh(t)].token} \ {None})
    BY <1>10 DEF GatewayTimeout, NetworkError, Unheard, Refreshing, Keep, browser,
       Typed, Live
  <2>2. tasks[Refresh(t)].token # None
    BY <1>2, <2>1 DEF AuthInv, TaskInv, KindInv, Tokens, None
  <2>3. Stays(Refresh(t))
    <3>1. Turns(Refresh(t), tasks[Refresh(t)].pc, tasks[Refresh(t)].answer, FALSE)
      <4>1. tasks[Refresh(t)] \in Task
        BY <1>2, <2>1, LiveTask
      <4>2. tasks[Refresh(t)].pc \in Steps /\ tasks[Refresh(t)].answer \in Nat
        BY <4>1 DEF Task
      <4>3. QED
        BY <1>2, <2>1, <4>2, Turning
    <3>2. QED
      BY <2>1, <3>1 DEF Turns, Stays, Live
  <2>4. QED
    BY <1>1, <2>1, <2>2, <2>3 DEF Moved
<1>11. CASE Reload(t)
  <2> DEFINE pending == {c \in {Form(t), Refresh(t)} : tasks[c].pc # "idle"
                                                  /\ tasks[c].awaited}
  <2>1. /\ memory'[t] = stored
        /\ forfeit' = forfeit \cup (({tasks[c].token : c \in pending} \cup
             ({stored} \cap {memory[x] : x \in Tabs \ {t}})) \ {None})
        /\ tasks' = [c \in Callers |-> IF c \in pending
                     THEN [tasks[c] EXCEPT !.awaited = FALSE] ELSE tasks[c]]
    BY <1>11 DEF Reload, Typed
  <2>2. stored \in forfeit' \cup {None, memory[t]}
    BY <1>2, <2>1 DEF StoredInv
  <2>3. CASE Refresh(t) \in pending
    <3>1. Live(Refresh(t)) /\ tasks[Refresh(t)].token # None
      BY <1>2, <2>3 DEF AuthInv, TaskInv, KindInv, Tokens, None, Live
    <3>2. tasks[Refresh(t)].token \in forfeit'
      BY <2>1, <2>3, <3>1
    <3>3. Stays(Refresh(t))
      <4>1. tasks'[Refresh(t)] = [tasks[Refresh(t)] EXCEPT !.awaited = FALSE]
        BY <1>2, <2>1, <2>3
      <4>2. tasks[Refresh(t)] \in Task
        BY <1>2, <3>1, LiveTask
      <4>3. QED
        BY <3>1, <4>1, <4>2 DEF Stays, Live, Task
    <3>4. QED
      BY <1>1, <2>1, <2>2, <3>2, <3>3 DEF Moved
  <2>4. CASE Refresh(t) \notin pending
    <3>1. tasks'[Refresh(t)] = tasks[Refresh(t)]
      BY <1>2, <2>1, <2>4
    <3>2. QED
      BY <1>1, <2>1, <2>2, <3>1 DEF Moved
  <2>5. QED
    BY <2>3, <2>4
<1>12. QED
  BY <1>4, <1>5, <1>6, <1>7, <1>8, <1>9, <1>10, <1>11 DEF TabStep

(* Where a session or a refresh may come from: what tabs know already, and *)
(* answers that have been heard.                                           *)
Heard(n) == \/ n = None \/ \E x \in Tabs : memory[x] = n
            \/ \E c \in Callers : Live(c) /\ ~Live(c)' /\ tasks[c].answer = n

Known ==
  /\ \A x \in Tabs : Heard(memory'[x])
  /\ \A c \in Callers : Live(c)' /\ ~Live(c) =>
       \/ tasks'[c].token = None
       \/ \E x \in Tabs : memory[x] = tasks'[c].token

(* While tabs take what they know and what they hear, an answer on its way *)
(* stays new to everyone.                                                  *)
LEMMA FreshAtMove ==
  ASSUME Typed, AuthInv, CauseInv, AtBrowser, Known, UNCHANGED tokens
  PROVE  \A c \in Callers : FreshInv(c)'
<1>1. ASSUME NEW c \in Callers, Live(c)', tasks'[c].answer # None
      PROVE  FreshInv(c)'
  <2>1. PICK n : n = tasks[c].answer
    OBVIOUS
  <2>2. Live(c) /\ tasks'[c].answer = n /\ n # None
    BY <1>1, <2>1, Carries DEF Carried, Stays
  <2>3. FreshInv(c)
    BY DEF CauseInv
  <2>4. \A x \in Tabs : memory'[x] # n
    BY <1>1, <2>1, <2>2, <2>3 DEF Known, Heard, FreshInv
  <2>5. ASSUME NEW d \in Callers, Live(d)'
        PROVE  tasks'[d].token # n /\ (d # c => tasks'[d].answer # n)
    <3>1. CASE Live(d)
      <4>1. Stays(d)
        BY <2>5, <3>1, Carries DEF Carried
      <4>2. QED
        BY <2>1, <2>2, <2>3, <4>1 DEF FreshInv, Stays
    <3>2. CASE ~Live(d)
      <4>1. tasks'[d].answer = None
        BY <2>5, <3>2, Carries DEF Carried, Stays
      <4>2. tasks'[d].token # n
        BY <2>1, <2>2, <2>3, <2>5, <3>2 DEF Known, FreshInv
      <4>3. QED
        BY <2>2, <4>1, <4>2
    <3>3. QED
      BY <3>1, <3>2
  <2>6. ~tokens'[n].revoked
    BY <2>1, <2>2, <2>3 DEF FreshInv
  <2>7. QED
    BY <2>2, <2>4, <2>5, <2>6 DEF FreshInv, Live
<1>2. QED
  BY <1>1 DEF FreshInv

(* A tab's step makes nothing up, and what it stores some tab has.         *)
LEMMA TabKnows ==
  ASSUME Typed, AuthInv, CauseInv, NEW t \in Tabs, TabStep(t)
  PROVE  Known /\ StoredInv'
<1>1. /\ Form(t) \in Callers /\ Refresh(t) \in Callers /\ Form(t) # Refresh(t)
      /\ StoredInv
  BY CallersOfTabs DEF CauseInv
<1>2. ASSUME \/ UNCHANGED <<memory, stored>>
             \/ \E n : Heard(n) /\ Keep(t, n)
             \/ memory' = [memory EXCEPT ![t] = stored] /\ UNCHANGED stored
      PROVE  StoredInv' /\ \A x \in Tabs : Heard(memory'[x])
  <2>1. CASE UNCHANGED <<memory, stored>>
    BY <1>1, <2>1 DEF StoredInv, Heard
  <2>2. ASSUME NEW n, Heard(n), Keep(t, n)
        PROVE  StoredInv' /\ \A x \in Tabs : Heard(memory'[x])
    <3>1. memory'[t] = n /\ stored' = n
          /\ \A x \in Tabs \ {t} : memory'[x] = memory[x]
      BY <2>2 DEF Keep, Typed
    <3>2. \A x \in Tabs : Heard(memory[x])
      BY DEF Heard
    <3>3. QED
      BY <2>2, <3>1, <3>2 DEF StoredInv
  <2>3. CASE memory' = [memory EXCEPT ![t] = stored] /\ UNCHANGED stored
    <3>1. memory'[t] = stored /\ \A x \in Tabs \ {t} : memory'[x] = memory[x]
      BY <2>3 DEF Typed
    <3>2. Heard(stored) /\ \A x \in Tabs : Heard(memory[x])
      BY <1>1 DEF Heard, StoredInv
    <3>3. QED
      BY <2>3, <3>1, <3>2 DEF StoredInv
  <2>4. QED
    BY <1>2, <2>1, <2>2, <2>3
<1>3. ASSUME \A c \in Callers : Live(c)' => Live(c),
             \/ UNCHANGED <<memory, stored>>
             \/ \E n : Heard(n) /\ Keep(t, n)
             \/ memory' = [memory EXCEPT ![t] = stored] /\ UNCHANGED stored
      PROVE  Known /\ StoredInv'
  BY <1>2, <1>3 DEF Known
<1>4. Heard(None)
  BY DEF Heard
<1>5. ASSUME NEW u \in Users, NEW kind \in {"register", "login"}, Submit(t, kind, u)
      PROVE  Known /\ StoredInv'
  <2>1. /\ tasks'[Form(t)].token = None
        /\ \A c \in Callers \ {Form(t)} : tasks'[c] = tasks[c]
        /\ UNCHANGED <<memory, stored>>
    BY <1>1, <1>5 DEF Submit, Start, NewTask, browser, Typed
  <2>2. QED
    BY <1>2, <2>1 DEF Known, Live
<1>6. ASSUME NEW c \in Callers, Ended(c), tasks' = [tasks EXCEPT ![c] = IdleTask]
      PROVE  Heard(tasks[c].answer) /\ \A d \in Callers : Live(d)' => Live(d)
  BY <1>6 DEF Typed, Ended, Live, IdleTask, Heard
<1>7. CASE FormAnswered(t)
  <2>1. Ended(Form(t)) /\ tasks' = [tasks EXCEPT ![Form(t)] = IdleTask]
        /\ (Keep(t, tasks[Form(t)].answer) \/ UNCHANGED <<memory, stored>>)
    BY <1>7 DEF FormAnswered
  <2>2. QED
    BY <1>1, <1>3, <1>6, <2>1
<1>8. CASE SignOut(t)
  BY <1>3, <1>4, <1>8 DEF SignOut, authVars, Live
<1>9. CASE Request(t)
  BY <1>3, <1>9 DEF Request, authVars, Live
<1>10. CASE RequestRefused(t)
  <2>1. CASE Refreshing(t)
    BY <1>3, <1>10, <2>1 DEF RequestRefused, authVars, Live
  <2>2. CASE memory[t] = None /\ ~Refreshing(t)
    BY <1>3, <1>4, <1>10, <2>2 DEF RequestRefused, authVars, Live
  <2>3. CASE memory[t] # None /\ ~Refreshing(t)
    <3>1. /\ Start(Refresh(t), "refresh", Owner(memory[t]), memory[t])
          /\ UNCHANGED <<memory, stored>>
      BY <1>10, <2>3 DEF RequestRefused
    <3>2. /\ tasks'[Refresh(t)].token = memory[t]
          /\ \A c \in Callers \ {Refresh(t)} : tasks'[c] = tasks[c]
      BY <1>1, <3>1 DEF Start, NewTask, Typed
    <3>3. QED
      BY <1>2, <3>1, <3>2 DEF Known, Live
  <2>4. QED
    BY <2>1, <2>2, <2>3
<1>11. CASE RefreshAnswered(t)
  <2>1. Ended(Refresh(t)) /\ tasks' = [tasks EXCEPT ![Refresh(t)] = IdleTask]
        /\ Keep(t, tasks[Refresh(t)].answer)
    BY <1>11 DEF RefreshAnswered
  <2>2. QED
    BY <1>1, <1>3, <1>6, <2>1
<1>12. ASSUME NEW S \in SUBSET Callers, Leaves(S)
       PROVE  \A c \in Callers : Live(c)' => Live(c)
  BY <1>12 DEF Leaves, Live
<1>13. CASE GatewayTimeout(t) \/ NetworkError(t)
  <2>1. Leaves({Refresh(t)})
    BY <1>13 DEF GatewayTimeout, NetworkError, Unheard, Refreshing, Leaves, Live, Typed
  <2>2. Keep(t, None) \/ UNCHANGED <<memory, stored>>
    BY <1>13 DEF GatewayTimeout, NetworkError, browser
  <2>3. QED
    BY <1>1, <1>3, <1>4, <1>12, <2>1, <2>2
<1>14. CASE Reload(t)
  <2> DEFINE pending == {c \in {Form(t), Refresh(t)} : tasks[c].pc # "idle"
                                                  /\ tasks[c].awaited}
  <2>1. Leaves(pending) /\ pending \in SUBSET Callers
        /\ memory' = [memory EXCEPT ![t] = stored] /\ UNCHANGED stored
    BY <1>1, <1>14 DEF Reload, Leaves, Live
  <2> HIDE DEF pending
  <2>2. QED
    BY <1>3, <1>12, <2>1
<1>15. QED
  BY <1>5, <1>7, <1>8, <1>9, <1>10, <1>11, <1>13, <1>14 DEF TabStep

(* A tab's step keeps what is known of where tokens are.                   *)
LEMMA CauseAtTab ==
  ASSUME Typed, AuthInv, CauseInv, NEW t \in Tabs, TabStep(t)
  PROVE  CauseInv'
<1>1. AtBrowser /\ UNCHANGED <<tokens, expired>>
  BY TabStepIs DEF TabEffect, database, clock
<1>2. Moved(t) /\ Known /\ StoredInv'
  BY TabMoves, TabKnows
<1>3. \A c \in Callers : FreshInv(c)'
  BY <1>1, <1>2, FreshAtMove
<1>4. \A x \in Tabs : LineageInv(x)
  BY DEF CauseInv
<1>5. \A x \in Tabs : LineageInv(x)'
  BY <1>1, <1>2, <1>4, LineageAtMove
<1>6. QED
  BY <1>2, <1>3, <1>5 DEF CauseInv

(* The rows that a step of auth-service revokes: the token of a refresh    *)
(* that is about to.                                                       *)
LEMMA RevokedAtWork ==
  ASSUME Typed, AuthInv, NEW c \in Callers, AuthStep(c), NEW n \in Tokens
  PROVE  /\ n \in Tokens'
         /\ tokens[n].revoked => tokens'[n].revoked
         /\ tokens'[n].revoked /\ ~tokens[n].revoked =>
              Revokes(c) /\ n = tasks[c].token
<1>1. PICK pc \in Steps : Passes(c, pc) \/ Finds(c, pc) \/ Revokes(c) \/ Issues(c)
  BY AuthStepIs DEF Steps
<1>2. Grows
  BY AuthStepGrows
<1>3. ASSUME ~Revokes(c) PROVE tokens'[n] = tokens[n]
  BY <1>1, <1>3, SMTT(30) DEF Passes, Finds, Issues, Typed, Tokens
<1>4. ASSUME Revokes(c), n # tasks[c].token PROVE tokens'[n] = tokens[n]
  <2> DEFINE m == tasks[c].token
             e == [tokens[m] EXCEPT !.revoked = TRUE]
  <2>1. tokens' = [tokens EXCEPT ![m] = e] /\ m # n
    BY <1>4 DEF Revokes
  <2> HIDE DEF e, m
  <2>2. QED
    BY <2>1 DEF Typed, Tokens
<1>5. QED
  BY <1>2, <1>3, <1>4 DEF Grows, Tokens

(* What auth-service answers is new, and stays so until it is heard.       *)
LEMMA FreshAtWork ==
  ASSUME Typed, AuthInv, NEW c \in Callers, AuthStep(c), UNCHANGED memory,
         \A d \in Callers : FreshInv(d)
  PROVE  \A d \in Callers : FreshInv(d)'
<1>1. PICK pc \in Steps : Passes(c, pc) \/ Finds(c, pc) \/ Revokes(c) \/ Issues(c)
  BY AuthStepIs DEF Steps
<1>2. PICK step, answer : step \in Steps /\ Turns(c, step, answer, tasks[c].awaited)
  BY <1>1 DEF Passes, Finds, Revokes, Issues, Steps
<1>3. /\ Live(c) /\ tasks'[c].token = tasks[c].token
      /\ \A d \in Callers : Live(d)' <=> Live(d)
      /\ \A d \in Callers \ {c} : tasks'[d] = tasks[d]
      /\ \A d \in Callers : tasks'[d].token = tasks[d].token
  BY <1>2, AuthStepIs DEF Turns, Live, Task, Steps
<1>4. /\ \A d \in Callers : Live(d) =>
           /\ tasks[d].token \in Tokens \cup {None}
           /\ tasks[d].answer \in Tokens \cup {None}
      /\ \A x \in Tabs : memory[x] \in Tokens \cup {None}
  BY DEF AuthInv, TaskInv, SessionsExist
<1>5. CASE tasks'[c].answer = None
  <2>1. ASSUME NEW d \in Callers \ {c}, Live(d), tasks[d].answer # None
        PROVE  FreshInv(d)'
    <3>1. PICK n : n = tasks[d].answer
      OBVIOUS
    <3>2. n \in Tokens /\ FreshInv(d) /\ tasks'[d].answer = n
      BY <1>3, <1>4, <2>1, <3>1
    <3>3. ~tokens'[n].revoked
      BY <1>3, <2>1, <3>1, <3>2, RevokedAtWork DEF FreshInv
    <3>4. QED
      BY <1>3, <1>5, <2>1, <3>1, <3>2, <3>3 DEF FreshInv
  <2>2. QED
    BY <1>3, <1>5, <2>1 DEF FreshInv
<1>6. CASE tasks'[c].answer # None
  <2>1. Issues(c)
    BY <1>1, <1>6 DEF Passes, Finds, Revokes, Turns
  <2>2. PICK l : l = Len(tokens) + 1
    OBVIOUS
  <2>3. /\ l \notin Tokens \cup {None} /\ tasks'[c].answer = l
        /\ ~tokens'[l].revoked
    BY <2>1, <2>2 DEF Issues, Turns, Typed, Tokens, None
  <2>4. FreshInv(c)'
    BY <1>3, <1>4, <2>3 DEF FreshInv
  <2>5. ASSUME NEW d \in Callers \ {c}, Live(d), tasks[d].answer # None
        PROVE  FreshInv(d)'
    <3>1. PICK n : n = tasks[d].answer
      OBVIOUS
    <3>2. n \in Tokens /\ FreshInv(d) /\ tasks'[d].answer = n
      BY <1>3, <1>4, <2>5, <3>1
    <3>3. ~tokens'[n].revoked
      BY <1>3, <2>5, <3>1, <3>2, RevokedAtWork DEF FreshInv
    <3>4. QED
      BY <1>3, <2>3, <2>5, <3>1, <3>2, <3>3 DEF FreshInv
  <2>6. QED
    BY <1>3, <2>4, <2>5 DEF FreshInv
<1>7. QED
  BY <1>5, <1>6

(* A refresh has its token to itself while auth-service works, or has      *)
(* forfeited it.                                                           *)
LEMMA LineageAtWork ==
  ASSUME Typed, AuthInv, NEW c \in Callers, Work(c),
         \A x \in Tabs : LineageInv(x)
  PROVE  \A x \in Tabs : LineageInv(x)'
<1>0. AuthStep(c) /\ UNCHANGED memory
  BY DEF Work, browser
<1>1. PICK pc \in Steps : Passes(c, pc) \/ Finds(c, pc) \/ Revokes(c) \/ Issues(c)
  BY <1>0, AuthStepIs DEF Steps
<1>2. PICK step, answer : step \in Steps /\ Turns(c, step, answer, tasks[c].awaited)
  BY <1>1 DEF Passes, Finds, Revokes, Issues, Steps
<1>3. /\ Live(c)
      /\ \A d \in Callers : Live(d)' <=> Live(d)
      /\ \A d \in Callers \ {c} : tasks'[d] = tasks[d]
      /\ \A d \in Callers : tasks'[d].token = tasks[d].token
      /\ \A d \in Callers : tasks'[d].awaited = tasks[d].awaited
      /\ \A x \in Tabs : \A n : Refreshes(x, n)' = Refreshes(x, n)
  <2>1. /\ Live(c)
        /\ \A d \in Callers : Live(d)' <=> Live(d)
        /\ \A d \in Callers \ {c} : tasks'[d] = tasks[d]
        /\ \A d \in Callers : tasks'[d].token = tasks[d].token
        /\ \A d \in Callers : tasks'[d].awaited = tasks[d].awaited
    BY <1>0, <1>2, AuthStepIs DEF Turns, Live, Task, Steps
  <2>2. QED
    BY <2>1, CallersOfTabs DEF Refreshes
<1>4. UNCHANGED expired /\ \A n : n \notin forfeit' => n \notin forfeit
  <2>1. UNCHANGED expired
    BY <1>0 DEF AuthStep, FindUser, CreateUserCredential, PublishUserRegistered,
       FindToken, RevokeRefreshToken, CreateSession, Fail, StopAndRedeliver, clock
  <2>2. QED
    BY <2>1 DEF Work
<1>5. ASSUME NEW x \in Tabs PROVE LineageInv(x)'
  <2>0. PICK m, n : m = memory[x] /\ n = tasks[Refresh(x)].token
    OBVIOUS
  <2>1. Refresh(x) \in Callers /\ TaskInv(Refresh(x)) /\ KindInv(x)
        /\ m \in Tokens \cup {None} /\ LineageInv(x)
    BY <2>0, CallersOfTabs DEF AuthInv, SessionsExist
  <2>2. ASSUME m \notin forfeit' \cup {None}
        PROVE  /\ \A y \in Tabs \ {x} : memory[y] # m
               /\ tokens'[m].revoked =>
                    /\ Refreshes(x, m)
                    /\ tasks'[Refresh(x)].pc \in {"issue", "done"}
    <3>1. m \in Tokens /\ m \notin forfeit \cup {None}
      BY <1>4, <2>1, <2>2
    <3>2. \A y \in Tabs \ {x} : memory[y] # m
      BY <2>0, <2>1, <3>1 DEF LineageInv
    <3>3. ASSUME tokens'[m].revoked, ~tokens[m].revoked
          PROVE  Refreshes(x, m) /\ tasks'[Refresh(x)].pc \in {"issue", "done"}
      <4>1. Revokes(c) /\ m = tasks[c].token
        BY <1>0, <3>1, <3>3, RevokedAtWork
      <4>2. PICK y \in Tabs : c = Refresh(y)
        BY <1>3, <4>1, CallersOfTabs DEF Revokes, AuthInv, KindInv
      <4>3. Refreshes(y, m) /\ LineageInv(y)
        BY <1>3, <4>1, <4>2 DEF Refreshes
      <4>4. x = y
        BY <2>0, <3>1, <4>3 DEF LineageInv, Refreshes
      <4>5. QED
        BY <4>1, <4>2, <4>3, <4>4 DEF Revokes, Turns
    <3>4. ASSUME tokens[m].revoked
          PROVE  Refreshes(x, m) /\ tasks'[Refresh(x)].pc \in {"issue", "done"}
      <4>1. Refreshes(x, m) /\ tasks[Refresh(x)].pc \in {"issue", "done"}
        BY <2>0, <2>1, <3>1, <3>4 DEF LineageInv
      <4>2. CASE c # Refresh(x)
        BY <1>3, <2>1, <4>1, <4>2
      <4>3. CASE c = Refresh(x)
        <5>1. ~Revokes(c) /\ ~Finds(c, pc)
          BY <4>1, <4>3 DEF Revokes, Finds
        <5>2. CASE Passes(c, pc)
          <6>1. tasks'[c].pc = pc /\ pc \in {"find", "failed"}
            BY <2>1, <4>1, <4>3, <5>2 DEF Passes, Turns, KindInv, Refreshes
          <6>2. m \in forfeit'
            BY <3>1, <4>1, <4>3, <6>1 DEF Work, Refreshes
          <6>3. QED
            BY <2>2, <6>2
        <5>3. CASE Issues(c)
          BY <4>1, <4>3, <5>3 DEF Issues, Turns
        <5>4. QED
          BY <1>1, <5>1, <5>2, <5>3
      <4>4. QED
        BY <4>2, <4>3
    <3>5. QED
      BY <3>2, <3>3, <3>4
  <2>3. ASSUME Live(Refresh(x)), n \notin forfeit'
        PROVE  /\ tasks[Refresh(x)].awaited
               /\ \A y \in Tabs \ {x} : memory[y] # n /\ ~Refreshes(y, n)
               /\ tasks'[Refresh(x)].pc = "find" => ~tokens'[n].revoked
               /\ tasks'[Refresh(x)].pc = "refused" => n <= expired
    <3>1. n \in Tokens /\ n \notin forfeit
      BY <1>4, <2>0, <2>1, <2>3 DEF TaskInv, KindInv
    <3>2. /\ tasks[Refresh(x)].awaited
          /\ \A y \in Tabs \ {x} : memory[y] # n /\ ~Refreshes(y, n)
          /\ tasks[Refresh(x)].pc = "find" => ~tokens[n].revoked
          /\ tasks[Refresh(x)].pc = "refused" => n <= expired
      BY <2>0, <2>1, <2>3, <3>1 DEF LineageInv
    <3>3. CASE c # Refresh(x)
      <4>1. tasks'[Refresh(x)] = tasks[Refresh(x)]
        BY <1>3, <2>1, <3>3
      <4>2. ASSUME tokens'[n].revoked, ~tokens[n].revoked
            PROVE  FALSE
        <5>1. Revokes(c) /\ n = tasks[c].token
          BY <1>0, <3>1, <4>2, RevokedAtWork
        <5>2. PICK y \in Tabs : c = Refresh(y)
          BY <1>3, <5>1, CallersOfTabs DEF Revokes, AuthInv, KindInv
        <5>3. QED
          BY <1>3, <3>2, <3>3, <5>1, <5>2 DEF Refreshes
      <4>3. QED
        BY <3>2, <4>1, <4>2
    <3>4. CASE c = Refresh(x)
      <4>1. CASE Passes(c, pc)
        <5>1. tasks'[c].pc = pc /\ pc \in {"find", "failed"}
          BY <2>1, <2>3, <3>4, <4>1 DEF Passes, Turns, KindInv
        <5>2. pc # "find"
          <6>1. tasks'[c].pc = "find" => n \in forfeit'
            BY <2>0, <3>1, <3>4 DEF Work, Tokens, None
          <6>2. QED
            BY <2>3, <5>1, <6>1
        <5>3. QED
          BY <3>2, <3>4, <5>1, <5>2
      <4>2. CASE Finds(c, pc)
        <5>1. /\ tasks'[c].pc \in {"revoke", "refused"}
              /\ tasks'[c].pc = "refused" => ~(n > expired)
          BY <2>0, <3>2, <3>4, <4>2 DEF Finds, Turns, Valid
        <5>2. n \in Nat /\ expired \in Nat
          BY <3>1 DEF Typed, Tokens
        <5>3. QED
          BY <3>2, <3>4, <5>1, <5>2
      <4>3. CASE Revokes(c) \/ Issues(c)
        BY <3>2, <3>4, <4>3 DEF Revokes, Issues, Turns
      <4>4. QED
        BY <1>1, <4>1, <4>2, <4>3
    <3>5. QED
      BY <3>3, <3>4
  <2>4. LineageInv(x)' <=>
          /\ m \notin forfeit' \cup {None} =>
               /\ \A y \in Tabs \ {x} : memory[y] # m
               /\ tokens'[m].revoked =>
                    /\ Refreshes(x, m)
                    /\ tasks'[Refresh(x)].pc \in {"issue", "done"}
          /\ Live(Refresh(x)) /\ n \notin forfeit' =>
               /\ tasks[Refresh(x)].awaited
               /\ \A y \in Tabs \ {x} : memory[y] # n /\ ~Refreshes(y, n)
               /\ tasks'[Refresh(x)].pc = "find" => ~tokens'[n].revoked
               /\ tasks'[Refresh(x)].pc = "refused" => n <= expired
    BY <1>0, <1>3, <1>4, <2>0, <2>1, ZenonT(60) DEF LineageInv, Refreshes
  <2>5. QED
    BY <2>2, <2>3, <2>4
<1>6. QED
  BY <1>5

(* A command whose answer nobody waits for has forfeited its token.        *)
LEMMA CauseAtForget ==
  ASSUME Typed, AuthInv, CauseInv, NEW c \in Callers, Forget(c)
  PROVE  CauseInv'
<1>1. /\ Ended(c) /\ Live(c) /\ ~tasks[c].awaited
      /\ UNCHANGED <<tokens, memory, stored, expired, forfeit>>
      /\ tasks' = [tasks EXCEPT ![c] = IdleTask]
      /\ tasks'[c] = IdleTask /\ \A d \in Callers \ {c} : tasks'[d] = tasks[d]
  BY DEF Forget, Ended, Live, database, browser, causes, clock, Typed
<1>2. AtBrowser
  BY <1>1 DEF AtBrowser, Ends
<1>3. Known
  BY <1>1 DEF Known, Heard, Live, IdleTask
<1>4. \A d \in Callers : FreshInv(d)'
  BY <1>1, <1>2, <1>3, FreshAtMove
<1>5. StoredInv'
  BY <1>1 DEF CauseInv, StoredInv
<1>6. ASSUME NEW x \in Tabs PROVE LineageInv(x)'
  <2>1. PICK m, n : m = memory[x] /\ n = tasks[Refresh(x)].token
    OBVIOUS
  <2>2. LineageInv(x) /\ Refresh(x) \in Callers
    BY CallersOfTabs DEF CauseInv
  <2>3. \A y \in Tabs : \A k : Refreshes(y, k)' => Refreshes(y, k)
    BY <1>1, CallersOfTabs DEF Refreshes, Live, IdleTask
  <2>4. CASE c = Refresh(x)
    <3>1. ~Live(Refresh(x))' /\ n \in forfeit
      BY <1>1, <2>1, <2>2, <2>4 DEF LineageInv, Live, IdleTask
    <3>2. m \notin forfeit \cup {None} => ~tokens[m].revoked
      BY <2>1, <2>2, <3>1 DEF LineageInv, Refreshes
    <3>3. QED
      BY <1>1, <2>1, <2>2, <3>1, <3>2 DEF LineageInv
  <2>5. CASE c # Refresh(x)
    <3>1. tasks'[Refresh(x)] = tasks[Refresh(x)]
      BY <1>1, <2>2, <2>5
    <3>2. \A k : Refreshes(x, k)' = Refreshes(x, k)
      BY <3>1 DEF Refreshes, Live
    <3>3. QED
      BY <1>1, <2>1, <2>2, <2>3, <3>1, <3>2 DEF LineageInv, Live
  <2>6. QED
    BY <2>4, <2>5
<1>7. QED
  BY <1>4, <1>5, <1>6 DEF CauseInv

(* Time does nothing but expire tokens.                                    *)
LEMMA CauseAtExpire ==
  ASSUME Typed, AuthInv, CauseInv, Expire, UNCHANGED <<memory, stored, forfeit>>
  PROVE  CauseInv'
<1>1. UNCHANGED <<tokens, tasks>> /\ expired <= expired'
      /\ expired \in Nat /\ expired' \in Nat
  BY DEF Expire, ExpireAccess, ExpireRefresh, database, Typed
<1>2. StoredInv' /\ \A c \in Callers : FreshInv(c)'
  BY <1>1 DEF CauseInv, StoredInv, FreshInv, Live
<1>3. ASSUME NEW x \in Tabs PROVE LineageInv(x)'
  <2>1. PICK n, r : n = tasks[Refresh(x)].token /\ r = (tasks[Refresh(x)].pc = "refused")
    OBVIOUS
  <2>2. LineageInv(x) /\ (Live(Refresh(x)) => n \in Nat)
    BY <2>1, CallersOfTabs, LiveTask DEF CauseInv, Task
  <2>3. Live(Refresh(x)) /\ n <= expired => n <= expired'
    BY <1>1, <2>2
  <2>4. QED
    BY <1>1, <2>1, <2>2, <2>3 DEF LineageInv, Refreshes, Live
<1>4. QED
  BY <1>2, <1>3 DEF CauseInv

-----------------------------------------------------------------------------
(* The invariant                                                           *)

(* It holds before anyone has registered.                                  *)
LEMMA InitIInv ==
  ASSUME Init
  PROVE  IInv
<1>1. /\ tokens = <<>> /\ Tokens = {} /\ \A c \in Callers : ~Live(c)
      /\ \A c \in Callers : tasks[c].pc = "idle"
      /\ memory = [t \in Tabs |-> None] /\ stored = None
  BY DEF Init, AuthInit, Tokens, Live, IdleTask
<1>2. Typed
  BY DEF Init, AuthInit, Typed, None
<1>3. AuthInv
  BY <1>1, CallersOfTabs DEF AuthInv, SessionsExist, TaskInv, KindInv
<1>4. SpentInv
  BY <1>1 DEF SpentInv, Spends
<1>5. ProfileInv
  BY DEF Init, AuthInit, UsersInit, ProfileInv
<1>6. AddressInv
  <2>1. /\ addresses = <<>> /\ DOMAIN addresses = {}
        /\ writers = [w \in Writers |-> NoWriter] /\ NoWriter.pc = "idle"
    BY DEF Init, UsersInit, NoWriter
  <2>2. \A u : Defaults(u) = {}
    BY <2>1 DEF Defaults, AddressesOf
  <2>3. QED
    BY <2>1, <2>2 DEF AddressInv, Inserts
<1>7. \A t \in Tabs : SessionInv(t)
  BY <1>1, CallersOfTabs DEF SessionInv, Refreshing
<1>8. CauseInv
  BY <1>1, CallersOfTabs DEF CauseInv, StoredInv, FreshInv, LineageInv
<1>9. QED
  BY <1>2, <1>3, <1>4, <1>5, <1>6, <1>7, <1>8 DEF IInv

(* What is kept by a step that has nothing to do with sessions.            *)
LEMMA SessionsKept ==
  ASSUME IInv, UNCHANGED <<tokens, tasks, doubled, clock, browser, causes>>
  PROVE  /\ Typed' /\ AuthInv' /\ SpentInv' /\ CauseInv'
         /\ \A t \in Tabs : SessionInv(t)'
<1>1. UNCHANGED <<tokens, tasks, doubled, stale, expired, memory, stored, sent, meant,
                  overtaken, forfeit>>
  BY DEF clock, browser, causes
<1>2. Typed' /\ AuthInv'
  BY <1>1 DEF IInv, Typed, AuthInv, SessionsExist, TaskInv, KindInv, Live, Tokens, Owner
<1>3. SpentInv'
  BY <1>1 DEF IInv, SpentInv, Spends, Tokens
<1>4. CauseInv'
  BY <1>1 DEF IInv, CauseInv, StoredInv, FreshInv, LineageInv, Live, Refreshes
<1>5. \A t \in Tabs : SessionInv(t)'
  BY <1>1 DEF IInv, SessionInv, Owner, Refreshing
<1>6. QED
  BY <1>2, <1>3, <1>4, <1>5

(* Every step of Next keeps it.                                            *)
LEMMA NextIInv ==
  ASSUME IInv, Next
  PROVE  IInv'
<1>1. ASSUME NEW t \in Tabs, TabStep(t) PROVE IInv'
  <2>1. AtBrowser /\ UNCHANGED <<database, clock, userVars>> /\ Typed' /\ SessionsExist'
    BY <1>1, TabStepIs DEF IInv, TabEffect
  <2>2. UNCHANGED <<credentials, tokens, registered, doubled, profiles, addresses,
                    writers, edited, crossed>>
    BY <2>1 DEF database, userVars
  <2>3. AuthInv'
    BY <2>1, <2>2, TasksAtBrowser DEF IInv, AuthInv
  <2>4. SpentInv'
    BY <2>1, <2>2, SpentAtBrowser DEF IInv
  <2>5. ProfileInv'
    BY <2>1, <2>2, ProfileAtBrowser DEF IInv
  <2>6. AddressInv'
    BY <2>2, AddressKept DEF IInv
  <2>7. \A x \in Tabs : SessionInv(x)'
    BY <1>1, SessionAtTab DEF IInv
  <2>8. CauseInv'
    BY <1>1, CauseAtTab DEF IInv
  <2>9. QED
    BY <2>1, <2>3, <2>4, <2>5, <2>6, <2>7, <2>8 DEF IInv
<1>2. ASSUME NEW c \in Callers, Work(c) PROVE IInv'
  <2>1. AuthStep(c) /\ UNCHANGED <<memory, stored, sent, meant, overtaken, profiles,
                                   addresses, writers, edited, crossed>>
    BY <1>2 DEF Work, browser, userVars
  <2>2. AuthInv' /\ tasks' \in [Callers -> {IdleTask} \cup Task]
    BY <2>1, TasksAtWork DEF IInv
  <2>3. Grows /\ UNCHANGED <<stale, expired>>
    <3>1. UNCHANGED clock
      BY <2>1 DEF AuthStep, FindUser, CreateUserCredential, PublishUserRegistered,
         FindToken, RevokeRefreshToken, CreateSession, Fail, StopAndRedeliver
    <3>2. Grows
      BY <2>1, AuthStepGrows DEF IInv
    <3>3. QED
      BY <3>1, <3>2 DEF clock
  <2>4. Typed'
    BY <2>1, <2>2, <2>3 DEF IInv, Typed, Grows
  <2>5. SpentInv'
    BY <2>1, SpentAtWork DEF IInv
  <2>6. ProfileInv'
    BY <2>1, ProfileAtWork DEF IInv
  <2>7. AddressInv'
    BY <2>1, AddressKept DEF IInv
  <2>8. \A x \in Tabs : SessionInv(x)'
    BY <2>1, SessionAtWork DEF IInv
  <2>9. CauseInv'
    <3>1. \A d \in Callers : FreshInv(d)'
      BY <2>1, FreshAtWork DEF IInv, CauseInv
    <3>2. \A x \in Tabs : LineageInv(x)'
      BY <1>2, LineageAtWork DEF IInv, CauseInv
    <3>3. QED
      BY <2>1, <3>1, <3>2 DEF IInv, CauseInv, StoredInv
  <2>10. QED
    BY <2>2, <2>4, <2>5, <2>6, <2>7, <2>8, <2>9 DEF IInv
<1>3. ASSUME NEW c \in Callers, Forget(c) PROVE IInv'
  <2>1. Ends(c) /\ UNCHANGED <<database, clock, userVars, browser, causes>>
    BY <1>3 DEF Forget, Ends
  <2>2. AtBrowser
    BY <2>1 DEF AtBrowser
  <2>3. UNCHANGED <<credentials, tokens, registered, doubled, profiles, addresses,
                    writers, edited, crossed, stale, expired, memory, stored, sent,
                    meant, overtaken, forfeit>>
    BY <2>1 DEF database, userVars, clock, browser, causes
  <2>4. Typed'
    BY <2>2, <2>3, Carries DEF IInv, Typed, Carried
  <2>5. AuthInv'
    BY <2>2, <2>3, TasksAtBrowser DEF IInv, AuthInv, SessionsExist, Tokens
  <2>6. SpentInv' /\ ProfileInv' /\ AddressInv'
    BY <2>2, <2>3, SpentAtBrowser, ProfileAtBrowser, AddressKept DEF IInv
  <2>7. \A x \in Tabs : SessionInv(x)'
    <3>1. \A d \in Callers : Live(d)' => tasks'[d] = tasks[d]
      BY <2>1 DEF Ends, IInv, Typed, Live, IdleTask
    <3>2. QED
      BY <2>3, <3>1, CallersOfTabs DEF IInv, SessionInv, Refreshing, Owner, Live
  <2>8. CauseInv'
    BY <1>3, CauseAtForget DEF IInv
  <2>9. QED
    BY <2>4, <2>5, <2>6, <2>7, <2>8 DEF IInv
<1>4. ASSUME Expire, UNCHANGED <<userVars, browser, causes>> PROVE IInv'
  <2>1. UNCHANGED <<credentials, tokens, registered, doubled, tasks, profiles, addresses,
                    writers, edited, crossed, memory, stored, sent, meant, overtaken,
                    forfeit>>
    BY <1>4 DEF Expire, database, userVars, browser, causes
  <2>2. stale' \in Nat /\ expired' \in Nat
    BY <1>4 DEF Expire, ExpireAccess, ExpireRefresh, IInv, Typed
  <2>3. Typed' /\ AuthInv'
    BY <2>1, <2>2 DEF IInv, Typed, AuthInv, SessionsExist, TaskInv, KindInv, Live,
       Tokens, Owner
  <2>4. SpentInv' /\ ProfileInv' /\ AddressInv'
    <3>1. AtBrowser
      BY <2>1 DEF AtBrowser
    <3>2. QED
      BY <2>1, <3>1, SpentAtBrowser, ProfileAtBrowser, AddressKept DEF IInv
  <2>5. \A x \in Tabs : SessionInv(x)'
    BY <2>1 DEF IInv, SessionInv, Refreshing, Owner
  <2>6. CauseInv'
    BY <1>4, <2>1, CauseAtExpire DEF IInv
  <2>7. QED
    BY <2>3, <2>4, <2>5, <2>6 DEF IInv
<1>5. ASSUME \/ HandleRegistered /\ UNCHANGED <<browser, causes>>
             \/ \E t \in Tabs : EditProfile(t)
             \/ \E t \in Tabs, w \in Writers, isDefault \in BOOLEAN :
                  AddAddress(t, w, isDefault)
             \/ AddressStep /\ UNCHANGED <<browser, causes>>
      PROVE  IInv'
  <2>1. UNCHANGED <<tokens, tasks, doubled, clock, browser, causes>>
    BY <1>5 DEF HandleRegistered, EditProfile, UpdateProfile, AddAddress, CreateAddress,
       AddressStep, ClearDefaults, InsertAddress, RollBack, authVars, database
  <2>2. /\ Typed' /\ AuthInv' /\ SpentInv' /\ CauseInv'
        /\ \A t \in Tabs : SessionInv(t)'
    BY <2>1, SessionsKept
  <2>3. ProfileInv'
    BY <1>5, ProfileAtUsers DEF IInv
  <2>4. AddressInv'
    <3>1. ASSUME \/ HandleRegistered \/ \E t \in Tabs : EditProfile(t)
          PROVE  AddressInv'
      <4>1. UNCHANGED <<addresses, writers, crossed>>
        BY <3>1 DEF HandleRegistered, CreateInitialProfile, DropEvent, userVars,
           EditProfile, UpdateProfile
      <4>2. QED
        BY <4>1, AddressKept DEF IInv
    <3>2. QED
      BY <1>5, <3>1, AddressAtCommand, AddressAtStep DEF IInv
  <2>5. QED
    BY <2>2, <2>3, <2>4 DEF IInv
<1>6. QED
  <2>1. BrowserStep => \/ \E t \in Tabs : TabStep(t)
                       \/ \E c \in Callers : Work(c) \/ Forget(c)
                       \/ Expire /\ UNCHANGED <<userVars, browser, causes>>
    BY DEF BrowserStep, TabStep
  <2>2. QED
    BY <1>1, <1>2, <1>3, <1>4, <1>5, <2>1 DEF Next

(* The invariant of the specification.                                     *)
LEMMA Invariance == Spec => []IInv
<1>1. ASSUME IInv, UNCHANGED vars PROVE IInv'
  <2>1. UNCHANGED <<tokens, tasks, doubled, clock, browser, causes, credentials,
                    registered, profiles, edited, addresses, writers, crossed>>
    BY <1>1 DEF vars, authVars, database, userVars
  <2>2. ProfileInv'
    BY <1>1, <2>1 DEF IInv, ProfileInv, HasProfile, Publishing, Under
  <2>3. AddressInv'
    BY <1>1, <2>1, AddressKept DEF IInv
  <2>4. QED
    BY <1>1, <2>1, <2>2, <2>3, SessionsKept DEF IInv
<1>2. QED
  BY <1>1, InitIInv, NextIInv, PTL DEF Spec

-----------------------------------------------------------------------------
(* Theorems                                                                *)

(* A refresh token buys one session, unless two refreshes found it valid   *)
(* before either had revoked it (refresh).                                 *)
THEOREM TokensAreSpentOnce == Spec => []SpentOnce
<1>1. ASSUME IInv PROVE SpentOnce
  <2>1. ASSUME NEW k \in Tokens, NEW l \in Tokens, k # l,
               tokens[k].from = tokens[l].from, tokens[k].from # None
        PROVE  tokens[k].from \in doubled
    BY <1>1, <2>1 DEF IInv, SpentInv
  <2>2. QED
    BY <2>1 DEF SpentOnce
<1>2. QED
  BY <1>1, Invariance, PTL

(* A tab has the session its user means it to have, through its own        *)
(* refreshes and other tabs', but for a user who signs in or out during a  *)
(* refresh (refreshAuthSession).                                           *)
THEOREM SessionsAreOnesOwn == Spec => []SessionIsOwn
<1>1. ASSUME IInv PROVE SessionIsOwn
  BY <1>1 DEF IInv, SessionInv, SessionIsOwn
<1>2. QED
  BY <1>1, Invariance, PTL

(* Every credential has, or will have, its profile unless the event is     *)
(* lost; an edited profile stays so; of the addresses of a user one is the *)
(* default, unless two transactions overlap (createAddress).               *)
THEOREM RecordsAreKept == Spec => []RecordsKept
<1>1. ASSUME IInv PROVE RecordsKept
  <2>1. ASSUME NEW u \in Users \ crossed
        PROVE  Cardinality({i \in AddressesOf(u) : addresses[i].isDefault}) <= 1
    <3>1. \A i, j \in Defaults(u) : i = j
      BY <1>1 DEF IInv, AddressInv
    <3>2. Cardinality(Defaults(u)) \in {0, 1}
      <4>1. CASE Defaults(u) = {}
        BY <4>1, FS_EmptySet
      <4>2. ASSUME NEW i \in Defaults(u) PROVE Cardinality(Defaults(u)) = 1
        <5>1. Defaults(u) = {i}
          BY <3>1
        <5>2. QED
          BY <5>1, FS_Singleton
      <4>3. QED
        BY <4>1, <4>2
    <3>3. QED
      BY <3>2 DEF Defaults
  <2>2. QED
    BY <1>1, <2>1 DEF IInv, ProfileInv, RecordsKept, Publishing
<1>2. QED
  BY <1>1, Invariance, PTL

(* Nobody is signed out by a refused refresh whose token is in date and    *)
(* has been his tab's alone, every use of it answered and heard            *)
(* (refreshAuthSession, refresh).                                          *)
THEOREM NobodyExpelledForNothing == Spec => ExpelledForCause
<1> DEFINE Caused == \A t \in Tabs :
             LET task == tasks[Refresh(t)] IN
             task.pc = "refused" /\ task.awaited
               => task.token <= expired \/ task.token \in forfeit
<1>1. ASSUME IInv PROVE Caused
  <2>1. ASSUME NEW t \in Tabs, tasks[Refresh(t)].pc = "refused"
        PROVE  \/ tasks[Refresh(t)].token <= expired
               \/ tasks[Refresh(t)].token \in forfeit
    BY <1>1, <2>1 DEF IInv, CauseInv, LineageInv, Live
  <2>2. QED
    BY <2>1
<1>2. Caused => [\A t \in Tabs :
         LET task == tasks[Refresh(t)] IN
         (task.pc = "refused" /\ tasks'[Refresh(t)].pc = "idle" /\ task.awaited)
           => \/ task.token <= expired
              \/ task.token \in forfeit]_vars
  OBVIOUS
<1>3. QED
  BY <1>1, <1>2, Invariance, PTL DEF ExpelledForCause
=============================================================================
