-------------------------------- MODULE Auth --------------------------------
(***************************************************************************)
(* auth-service: credentials and refresh tokens.  A command is a chain of  *)
(* single statements, none of them in a transaction: register finds the    *)
(* email, creates the credential, publishes user_registered and creates a  *)
(* session; refresh finds the token, revokes it and creates a session.     *)
(* Any statement may fail, which ends the command with an error, and the   *)
(* service may stop after any, which delivers the command again.           *)
(*                                                                         *)
(* A session is known by its refresh token, the token by its number.  Its  *)
(* access token, which lives shorter, is no row: the gateway's guard looks *)
(* at the signature and the time, so that it outlives a revocation.        *)
(***************************************************************************)
EXTENDS Integers, Sequences, FiniteSets

CONSTANTS Users,       \* people, each with one email, normalised
          Callers,     \* who may have a command under way, one each
          MaxCommands, \* bound: commands in a behaviour
          MaxFaults    \* bound: failures, stops, answers that are not heard

ASSUME AuthAssumption == MaxCommands \in Nat /\ MaxFaults \in Nat

VARIABLES credentials, \* the users that have a credential
          tokens,      \* the rows of refresh_tokens, in the order of creation
          tasks,       \* tasks[c]: the command of c
          registered,  \* registered[u]: the user_registered event of u
          doubled,     \* tokens that two refreshes have found valid at once
          commands,    \* commands so far
          faults,      \* faults so far
          stale,       \* the access tokens up to this one have expired
          expired      \* and the refresh tokens up to this one

counters == <<commands, faults>>
clock    == <<stale, expired>>
database == <<credentials, tokens, registered, doubled>>
authVars == <<database, tasks, counters, clock>>

Tokens == 1..Len(tokens)
None   == 0

IdleTask == [pc |-> "idle"]

AuthInit == /\ credentials = {} /\ tokens = <<>>
            /\ tasks = [c \in Callers |-> IdleTask]
            /\ registered = [u \in Users |-> "none"]
            /\ doubled = {}
            /\ commands = 0 /\ faults = 0
            /\ stale = 0 /\ expired = 0

NewTask(kind, u, n) ==
  [pc |-> "find", kind |-> kind, user |-> u, token |-> n, awaited |-> TRUE,
   answer |-> None]

Start(c, kind, u, n) ==
  /\ tasks[c].pc = "idle"
  /\ commands < MaxCommands
  /\ commands' = commands + 1
  /\ tasks' = [tasks EXCEPT ![c] = NewTask(kind, u, n)]
  /\ UNCHANGED <<database, faults, clock>>

Under(c, pc, kinds) == tasks[c].pc = pc /\ tasks[c].kind \in kinds

Goto(c, pc) == tasks' = [tasks EXCEPT ![c].pc = pc]

(* findUserByEmail; login then verifies the password.  A command is        *)
(* refused (401, 409) or fails (500).                                      *)
FindUser(c) ==
  LET known == tasks[c].user \in credentials IN
  /\ \/ Under(c, "find", {"login"}) /\ Goto(c, IF known THEN "issue"
                                                ELSE "refused")
     \/ Under(c, "find", {"register"}) /\ Goto(c, IF known THEN "refused"
                                                   ELSE "create")
  /\ UNCHANGED <<database, counters, clock>>

(* createUserCredential: the email is unique.                              *)
CreateUserCredential(c) ==
  /\ Under(c, "create", {"register"})
  /\ credentials' = credentials \cup {tasks[c].user}
  /\ Goto(c, IF tasks[c].user \in credentials THEN "failed" ELSE "publish")
  /\ UNCHANGED <<tokens, registered, doubled, counters, clock>>

PublishUserRegistered(c) ==
  /\ Under(c, "publish", {"register"})
  /\ registered' = [registered EXCEPT ![tasks[c].user] = "queued"]
  /\ Goto(c, "issue")
  /\ UNCHANGED <<credentials, tokens, doubled, counters, clock>>

(* mutant: a token that is revoked is as good as another.                  *)
ValidLong(n) == n > expired

Valid(n) == ~tokens[n].revoked /\ n > expired

Refreshers(n) == {c \in Callers : /\ Under(c, "revoke", {"refresh"})
                                  /\ tasks[c].token = n}

(* findRefreshTokenByHash, and findUserByUserId: users are never deleted.  *)
FindToken(c) ==
  LET n == tasks[c].token IN
  /\ Under(c, "find", {"refresh"})
  /\ Goto(c, IF Valid(n) THEN "revoke" ELSE "refused")
  /\ doubled' = IF Valid(n) /\ Refreshers(n) # {} THEN doubled \cup {n}
                ELSE doubled
  /\ UNCHANGED <<credentials, tokens, registered, counters, clock>>

RevokeRefreshToken(c) ==
  /\ Under(c, "revoke", {"refresh"})
  /\ tokens' = [tokens EXCEPT ![tasks[c].token].revoked = TRUE]
  /\ Goto(c, "issue")
  /\ UNCHANGED <<credentials, registered, doubled, counters, clock>>

(* createSession: a new refresh token, and the answer.                     *)
CreateSession(c) ==
  LET n == tasks[c].token
      u == IF n = None THEN tasks[c].user ELSE tokens[n].user
  IN /\ Under(c, "issue", {"register", "login", "refresh"})
     /\ tokens' = Append(tokens, [user |-> u, from |-> n, revoked |-> FALSE])
     /\ tasks' = [tasks EXCEPT ![c].pc = "done", ![c].answer = Len(tokens')]
     /\ UNCHANGED <<credentials, registered, doubled, counters, clock>>

-----------------------------------------------------------------------------
(* A credential whose event is not published when its command is cut off   *)
(* will never have one: the email is taken when the command comes again.   *)

Ended(c)   == tasks[c].pc \in {"done", "refused", "failed"}
Working(c) == tasks[c].pc # "idle" /\ ~Ended(c)

CutOff(c) == registered' = IF Under(c, "publish", {"register"})
                           THEN [registered EXCEPT ![tasks[c].user] = "lost"]
                           ELSE registered

Fault == faults < MaxFaults /\ faults' = faults + 1

(* A statement fails, or the password is wrong.                            *)
Fail(c) ==
  /\ Working(c) /\ Fault
  /\ Goto(c, "failed")
  /\ CutOff(c)
  /\ UNCHANGED <<credentials, tokens, doubled, commands, clock>>

(* The service stops before the command is answered and acknowledged.      *)
StopAndRedeliver(c) ==
  /\ tasks[c].pc \notin {"idle", "find"} /\ Fault
  /\ tasks' = [tasks EXCEPT ![c].pc = "find", ![c].answer = None]
  /\ CutOff(c)
  /\ UNCHANGED <<credentials, tokens, doubled, commands, clock>>

AuthStep(c) == \/ FindUser(c) \/ CreateUserCredential(c)
               \/ PublishUserRegistered(c) \/ FindToken(c)
               \/ RevokeRefreshToken(c) \/ CreateSession(c)
               \/ Fail(c) \/ StopAndRedeliver(c)

(* Time.  All access tokens live equally long, and all refresh tokens do,  *)
(* longer: they expire in the order they were made.                        *)
ExpireAccess  == stale < Len(tokens) /\ stale' = stale + 1 /\ UNCHANGED expired
ExpireRefresh == expired < stale /\ expired' = expired + 1 /\ UNCHANGED stale

Expire == /\ ExpireAccess \/ ExpireRefresh
          /\ UNCHANGED <<database, tasks, counters>>

-----------------------------------------------------------------------------
(* Properties                                                              *)

(* A refresh token buys one session.  Two come from one only if two        *)
(* refreshes found it valid before either had revoked it, however often    *)
(* commands are cut off and delivered again (refresh).                     *)
SpentOnce ==
  \A k, l \in Tokens : (k # l /\ tokens[k].from = tokens[l].from)
                         => tokens[k].from \in doubled \cup {None}
=============================================================================
