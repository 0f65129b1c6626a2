------------------------------- MODULE Session -------------------------------
(***************************************************************************)
(* The client's session with GOG (internal/gog): one account token that    *)
(* every request needs, a refresh that GOG answers with a new refresh      *)
(* token and by refusing the old one from then on, logins and logouts that *)
(* happen meanwhile, and the copy in the database a restart begins with.   *)
(***************************************************************************)
EXTENDS Naturals, Sequences, FiniteSets

CONSTANTS
    Requests,      \* goroutines that ask GOG something about the account
    GameRequests,  \* goroutines that list or fetch the saves of one game
    SignIns,       \* logins; each is to an account of its own
    First,         \* the account of the session there is at the start
    Nobody,        \* no account
    Casts,         \* which of them take part together
    Free,          \* no holder
    MaxIssued,     \* bound: refresh tokens GOG issues
    MaxSession,    \* bound: logins and logouts in one life of the process
    MaxTries,      \* maxAttempts
    Ops            \* what else happens: "expire", "revoke", "lost", "crash", "logout", "hangup"

LogOut == "logout"
Proc == Requests \cup GameRequests \cup SignIns \cup {LogOut}

ASSUME SessionAssumption ==
    /\ MaxIssued \in Nat \ {0} /\ MaxSession \in Nat /\ MaxTries \in Nat \ {0}
    /\ Free \notin Proc /\ Nobody \notin SignIns \cup {First}
    /\ Casts \subseteq SUBSET Proc
    /\ LogOut \notin Requests \cup GameRequests \cup SignIns
    /\ Requests \cap SignIns = {} /\ GameRequests \cap (Requests \cup SignIns) = {}

VARIABLES
    token,       \* Client.token; refresh = 0 is ""
    session,     \* Client.session
    gameToken,   \* Client.gameTokens of one game: the account of the cached token
    stored,      \* row of table auth
    persist,     \* holder of persistMu
    refreshing,  \* holder of refreshMu
    proc,        \* where every goroutine is, and its locals
    grants,      \* refresh tokens GOG issued, in order: the account of each
    valid,       \* those GOG accepts
    gone         \* those it took back, or exchanged in an answer nobody got

vars == <<token, session, gameToken, stored, persist, refreshing, proc, grants, valid, gone>>
client == <<token, session, gameToken>>
locks == <<persist, refreshing>>
gog == <<grants, valid, gone>>

Account == SignIns \cup {First, Nobody}
Token == [refresh: 0..MaxIssued, access: {"none", "usable", "expired"}, error: BOOLEAN]
LoggedOut == [refresh |-> 0, access |-> "none", error |-> FALSE]
Answered(r) == [refresh |-> r, access |-> "usable", error |-> FALSE]
Owner(r) == IF r = 0 THEN Nobody ELSE grants[r]

Pc == {"idle", "ask", "lock", "read", "send", "answer", "save", "write", "use",
       "code", "install", "annotate", "done", "check", "grant", "cache", "list",
       "clear", "failed"}
Local == [pc: Pc, part: {"request", "install", "fetch", "annotate"},
          refresh: 0..MaxIssued, session: Nat, copy: Token,
          answer: {"none", "granted", "refused", "failed"}, new: 0..MaxIssued,
          as: Account, tries: 0..(MaxTries - 1)]
Idle == [pc |-> "idle", part |-> "request", refresh |-> 0, session |-> 0, copy |-> LoggedOut,
         answer |-> "none", new |-> 0, as |-> Nobody, tries |-> 0]
Done == [Idle EXCEPT !.pc = "done"]

TypeOK ==
    /\ token \in Token /\ stored \in Token
    /\ session \in Nat
    /\ gameToken \in Account
    /\ persist \in Proc \cup {Free} /\ refreshing \in Proc \cup {Free}
    /\ proc \in [Proc -> Local]
    /\ grants \in Seq(Account) /\ Len(grants) <= MaxIssued
    /\ valid \subseteq 1..Len(grants) /\ gone \subseteq 1..Len(grants)

Init ==
    /\ stored \in {LoggedOut, Answered(1)}
    /\ token = stored
    /\ session = 0 /\ gameToken = Nobody
    /\ persist = Free /\ refreshing = Free
    /\ \E cast \in Casts : proc = [p \in Proc |-> IF p \in cast THEN Idle ELSE Done]
    /\ grants = IF stored = LoggedOut THEN <<>> ELSE <<First>>
    /\ valid = IF stored = LoggedOut THEN {} ELSE {1}
    /\ gone = {}

Step(p, l) == proc' = [proc EXCEPT ![p] = l]
Goto(p, pc) == [proc[p] EXCEPT !.pc = pc]
Afresh(p, pc) == [Idle EXCEPT !.pc = pc, !.part = proc[p].part, !.tries = proc[p].tries]
(* A request that fails ends; a login goes on without the user's name.     *)
Failed(p) == CASE proc[p].part = "fetch" -> [Idle EXCEPT !.pc = "annotate"]
               [] p \in SignIns /\ proc[p].part # "fetch" -> Done
               [] OTHER -> Idle
Succeeded(p) == IF p \in SignIns THEN [Idle EXCEPT !.pc = "annotate"] ELSE Idle
Retried(p, pc) == IF proc[p].tries + 1 < MaxTries
                  THEN [Afresh(p, pc) EXCEPT !.tries = proc[p].tries + 1]
                  ELSE Failed(p)
Unlocked_late(p, holder) == holder
Unlocked(p, holder) == IF holder = p THEN Free ELSE holder

------------------------------------------------------------------------------
(* A request to GOG: get, accessToken, saveSession                          *)

Rejects == token.refresh = 0 \/ token.error
CurrentToken(p, refresh) ==
    IF Rejects THEN Failed(p)
    ELSE IF token.access = "usable" THEN Afresh(p, "use") ELSE refresh

Begin(p) ==
    /\ proc[p].pc = "idle" /\ p \in Requests \cup SignIns
    /\ Step(p, Goto(p, IF p \in SignIns THEN "code" ELSE "ask"))
    /\ UNCHANGED <<client, stored, locks, gog>>

Ask(p) ==
    /\ proc[p].pc = "ask"
    /\ Step(p, CurrentToken(p, Goto(p, "lock")))
    /\ UNCHANGED <<client, stored, locks, gog>>

(* With refreshMu: another request may have refreshed the token meanwhile.  *)
MayRefresh_always == TRUE
MayRefresh == refreshing = Free
LockRefresh(p) ==
    /\ proc[p].pc = "lock" /\ MayRefresh
    /\ Step(p, CurrentToken(p, Goto(p, "read")))
    /\ refreshing' = IF proc'[p].pc = "read" THEN p ELSE refreshing
    /\ UNCHANGED <<client, stored, persist, gog>>

(* A lock section of its own: a logout may come before it.                  *)
ReadRefresh(p) ==
    /\ proc[p].pc = "read"
    /\ Step(p, [Goto(p, "send") EXCEPT !.refresh = token.refresh, !.session = session])
    /\ UNCHANGED <<client, stored, locks, gog>>

(* GOG's side of tokenRequest: it exchanges a refresh token it accepts.     *)
Issue(owner, old) ==
    /\ Len(grants) < MaxIssued
    /\ grants' = Append(grants, owner)
    /\ valid' = (valid \ old) \cup {Len(grants) + 1}

Exchange(p) ==
    LET r == proc[p].refresh
        Reply(a, n) == Step(p, [Goto(p, "answer") EXCEPT !.answer = a, !.new = n])
    IN /\ proc[p].pc = "send"
       /\ \/ r \in valid /\ Issue(Owner(r), {r}) /\ gone' = gone /\ Reply("granted", Len(grants) + 1)
          \/ "lost" \in Ops /\ r \in valid /\ Issue(Owner(r), {r})
             /\ gone' = gone \cup {r, Len(grants) + 1} /\ Reply("failed", 0)
          \/ r \notin valid /\ Reply("refused", 0) /\ UNCHANGED gog
          \/ Reply("failed", 0) /\ UNCHANGED gog
       /\ UNCHANGED <<client, stored, locks>>

(* Is the answer about the session there is now?                            *)
IsCurrent_always(p) == TRUE
IsCurrent(p) == token.refresh = proc[p].refresh
Refreshed(p) ==
    IF proc[p].answer = "granted"
    THEN [token EXCEPT !.refresh = proc[p].new, !.access = "usable"]
    ELSE [token EXCEPT !.error = TRUE]

ApplyAnswer(p) ==
    /\ proc[p].pc = "answer"
    /\ \/ /\ IsCurrent(p) /\ proc[p].answer # "failed"
          /\ token' = Refreshed(p)
          /\ Step(p, [Goto(p, "save") EXCEPT !.copy = token'])
          /\ refreshing' = refreshing
       \/ /\ IsCurrent(p) /\ proc[p].answer = "failed"
          /\ Step(p, Failed(p)) /\ token' = token
          /\ refreshing' = Unlocked(p, refreshing)
       \/ /\ ~IsCurrent(p)
          /\ Step(p, IF token.access # "none" THEN Afresh(p, "use") ELSE Failed(p))
          /\ refreshing' = Unlocked(p, refreshing) /\ token' = token
    /\ UNCHANGED <<session, gameToken, stored, persist, gog>>

(* saveSession: with persistMu, compare, then write.                        *)
StillLive(p) == session = proc[p].session /\ token.refresh = proc[p].copy.refresh
LockStore(p) ==
    /\ proc[p].pc = "save" /\ persist = Free
    /\ IF StillLive(p)
       THEN persist' = p /\ Step(p, Goto(p, "write")) /\ refreshing' = refreshing
       ELSE persist' = persist /\ Step(p, Failed(p)) /\ refreshing' = Unlocked(p, refreshing)
    /\ UNCHANGED <<client, stored, gog>>

AfterSave(p) ==
    CASE proc[p].part = "install" -> [Idle EXCEPT !.pc = "ask", !.part = "fetch"]
      [] proc[p].part = "annotate" -> Done
      [] OTHER -> IF proc[p].answer = "refused" THEN Failed(p) ELSE Afresh(p, "use")
WriteStore(p) ==
    /\ proc[p].pc = "write"
    /\ stored' = proc[p].copy
    /\ persist' = Free /\ refreshing' = Unlocked(p, refreshing)
    /\ Step(p, AfterSave(p))
    /\ UNCHANGED <<client, gog>>

(* The request itself. GOG may refuse any access token.                     *)
Use(p) ==
    /\ proc[p].pc = "use"
    /\ \/ Step(p, Succeeded(p)) /\ token' = token
       \/ Step(p, Retried(p, "ask")) /\ token' = [token EXCEPT !.access = "none"]
       \/ Step(p, Retried(p, "ask")) /\ token' = token
    /\ UNCHANGED <<session, gameToken, stored, locks, gog>>

------------------------------------------------------------------------------
(* Login and logout                                                         *)

ExchangeCode(p) ==
    /\ proc[p].pc = "code"
    /\ \/ Issue(p, {}) /\ Step(p, [Goto(p, "install") EXCEPT !.new = Len(grants) + 1])
       \/ Step(p, Done) /\ UNCHANGED <<grants, valid>>
    /\ UNCHANGED <<client, stored, locks, gone>>

InstallSession(p) ==
    /\ proc[p].pc = "install"
    /\ token' = Answered(proc[p].new)
    /\ session' = session + 1
    /\ gameToken' = Nobody
    /\ Step(p, [Idle EXCEPT !.pc = "save", !.part = "install", !.copy = token', !.session = session'])
    /\ UNCHANGED <<stored, locks, gog>>

(* The name is added to the live token, not to the copy from before.        *)
Annotated_copy(p) ==
    IF token.refresh = 0 THEN token
    ELSE Answered(CHOOSE i \in DOMAIN grants :
                      grants[i] = p /\ \A j \in DOMAIN grants : grants[j] = p => i <= j)
Annotated(p) == token
Annotate(p) ==
    /\ proc[p].pc = "annotate"
    /\ token' = Annotated(p)
    /\ Step(p, IF token.refresh = 0 THEN Done
               ELSE [Idle EXCEPT !.pc = "save", !.part = "annotate", !.copy = token', !.session = session])
    /\ UNCHANGED <<session, gameToken, stored, locks, gog>>

MayForget_any_time == TRUE
MayForget == persist = Free
ForgetSession ==
    /\ "logout" \in Ops /\ proc[LogOut].pc \in {"idle", "failed"} /\ MayForget
    /\ session + Cardinality(SignIns) < MaxSession
    /\ persist' = LogOut
    /\ token' = LoggedOut /\ session' = session + 1 /\ gameToken' = Nobody
    /\ Step(LogOut, Goto(LogOut, "clear"))
    /\ UNCHANGED <<stored, refreshing, gog>>

(* The DELETE runs under the request's context, which a client that goes    *)
(* away has cancelled.                                                      *)
ClearStore ==
    /\ proc[LogOut].pc = "clear"
    /\ \/ stored' = LoggedOut /\ Step(LogOut, Idle)
       \/ "hangup" \in Ops /\ stored' = stored /\ Step(LogOut, Goto(LogOut, "failed"))
    /\ persist' = Free
    /\ UNCHANGED <<client, refreshing, gog>>

------------------------------------------------------------------------------
(* The saves of a game: gameAccessToken, ListCloudSaves, OpenCloudSave      *)

AskGame(g) ==
    /\ g \in GameRequests /\ proc[g].pc = "idle"
    /\ Step(g, IF gameToken # Nobody THEN [Goto(g, "list") EXCEPT !.as = gameToken]
               ELSE [Goto(g, "check") EXCEPT !.refresh = token.refresh])
    /\ UNCHANGED <<client, stored, locks, gog>>

CheckSession(g) ==
    /\ proc[g].pc = "check"
    /\ Step(g, IF Rejects THEN Idle ELSE Goto(g, "grant"))
    /\ UNCHANGED <<client, stored, locks, gog>>

(* GOG issues it without a new session: the refresh token stays as it is.   *)
(* A refusal says nothing about the account's session.                      *)
GrantGame(g) ==
    /\ proc[g].pc = "grant"
    /\ \/ /\ proc[g].refresh \in valid
          /\ Step(g, [Goto(g, "cache") EXCEPT !.as = Owner(proc[g].refresh)])
       \/ Step(g, Idle)
    /\ UNCHANGED <<client, stored, locks, gog>>

CacheGameToken(g) ==
    /\ proc[g].pc = "cache"
    /\ gameToken' = proc[g].as
    /\ Step(g, Goto(g, "list"))
    /\ UNCHANGED <<token, session, stored, locks, gog>>

ListSaves(g) ==
    /\ proc[g].pc = "list"
    /\ \/ Step(g, Idle) /\ gameToken' = gameToken
       \/ Step(g, Retried(g, "idle")) /\ gameToken' = Nobody
    /\ UNCHANGED <<token, session, stored, locks, gog>>

------------------------------------------------------------------------------
(* Time, GOG, and the process                                               *)

Expire ==
    /\ "expire" \in Ops /\ token.access = "usable"
    /\ token' = [token EXCEPT !.access = "expired"]
    /\ UNCHANGED <<session, gameToken, stored, locks, proc, gog>>

Revoke ==
    /\ "revoke" \in Ops /\ valid # {}
    /\ gone' = gone \cup valid /\ valid' = {}
    /\ UNCHANGED <<client, stored, locks, proc, grants>>

(* NewClient begins with what is stored. A refresh token whose successor    *)
(* was on its way to memory or to the store is lost with the process.       *)
LostAtRestart ==
    {proc[p].refresh : p \in {q \in Proc : proc[q].pc = "answer"}}
        \cup (IF stored.refresh = token.refresh THEN {} ELSE {stored.refresh})
Restart ==
    /\ "crash" \in Ops /\ \E p \in Proc : proc[p].pc \notin {"idle", "done"}
    /\ token' = stored /\ session' = 0 /\ gameToken' = Nobody
    /\ persist' = Free /\ refreshing' = Free
    /\ proc' = [p \in Proc |-> IF proc[p].pc = "done" \/ (p \in SignIns /\ proc[p].pc # "idle") THEN Done ELSE Idle]
    /\ gone' = gone \cup (LostAtRestart \ {0})
    /\ UNCHANGED <<stored, grants, valid>>

ProcStep(p) ==
    \/ Ask(p) \/ LockRefresh(p) \/ ReadRefresh(p) \/ Exchange(p) \/ ApplyAnswer(p)
    \/ LockStore(p) \/ WriteStore(p) \/ Use(p)
    \/ ExchangeCode(p) \/ InstallSession(p) \/ Annotate(p)
    \/ CheckSession(p) \/ GrantGame(p) \/ CacheGameToken(p) \/ ListSaves(p)

Next ==
    \/ \E p \in Proc : Begin(p) \/ AskGame(p) \/ ProcStep(p)
    \/ ForgetSession \/ ClearStore
    \/ Expire \/ Revoke \/ Restart

Spec == Init /\ [][Next]_vars

(* Requests end by a timeout, statements end, and a mutex hands itself to   *)
(* the goroutine that has waited longest.                                   *)
Fairness ==
    /\ \A p \in Proc : WF_vars(ProcStep(p))
    /\ \A p \in Requests \cup SignIns : SF_vars(LockRefresh(p))
    /\ WF_vars(ClearStore)
FairSpec == Spec /\ Fairness

------------------------------------------------------------------------------
(* Properties                                                               *)

(* What is stored is the session there is, or somebody is on the way to    *)
(* store it: saveSession writes nothing of a session that ended, and every *)
(* refresh, login and logout reaches the store, whichever of them meet. A  *)
(* logout may fail to, but is answered with that error.                     *)
StoredIsLive ==
    \/ stored.refresh = token.refresh
    \/ proc[LogOut].pc = "clear"
    \/ proc[LogOut].pc = "failed" /\ token.refresh = 0
    \/ \E p \in Proc : /\ proc[p].pc \in {"save", "write"} /\ StillLive(p)

(* The refresh token in memory is one GOG accepts, unless it was taken     *)
(* back, its exchange went wrong on the way, or the answer is still coming: *)
(* requests never spend one token twice (refreshMu), and a login that adds  *)
(* the user's name does not put back a token spent meanwhile.               *)
RefreshIsValid ==
    token.refresh # 0 =>
        \/ token.refresh \in valid \cup gone
        \/ \E p \in Proc : proc[p].pc = "answer" /\ proc[p].refresh = token.refresh

(* "Only a real rejection of the refresh token" ends a session: the token  *)
(* that is marked is one GOG does not accept, not its successor, not that   *)
(* of the next login, and not one refused to a game's client.               *)
ErrorIsEarned == token.error /\ token.refresh # 0 => token.refresh \notin valid

(* A logout and a login are final for what began before them: the account  *)
(* in memory changes to another one only by a login. A restart goes on with *)
(* what was stored.                                                         *)
SessionsEnd ==
    [][\/ Owner(token.refresh)' \in {Owner(token.refresh), Nobody}
       \/ \E p \in SignIns : proc[p].pc = "install" /\ proc[p]'.pc = "save"
       \/ token' = stored]_vars

(* Every request, login and logout ends, whatever refreshes, logouts and    *)
(* logins it waits for (refreshMu, persistMu).                              *)
AtRest == {"idle", "done", "failed"}
RequestsEnd == \A p \in Proc : proc[p].pc \notin AtRest ~> proc[p].pc \in AtRest

(* Logout "drops the stored tokens": once it is over and nobody logged in   *)
(* again, none is stored for a restart to find.                             *)
LogoutIsStored == token = LoggedOut /\ persist = Free => stored.refresh = 0

(* A logout leaves no error behind about a session there is none of.        *)
LoggedOutIsClean == token.refresh = 0 => ~token.error

(* The token kept for a game is one of the account that is logged in.       *)
GameTokenIsOwn == gameToken \in {Nobody, Owner(token.refresh)}
==============================================================================
