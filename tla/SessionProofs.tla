--------------------------- MODULE SessionProofs ---------------------------
(***************************************************************************)
(* What Session promises for any number of requests, logins and logouts,   *)
(* proved with TLAPS.  Three facts carry it: two locks, each held by the   *)
(* one goroutine that is where the lock is needed; a refresh token that is *)
(* on its way is known to nobody else; and a copy that is still to be      *)
(* stored is followed by the store.                                        *)
(***************************************************************************)
EXTENDS Session, SequenceTheorems, TLAPS

\* Between its look at the session and the end of the refresh.
Refreshing(p) == proc[p].pc \in {"read", "send", "answer"}
Asking(p) == proc[p].pc \in {"send", "answer"}
\* A token GOG issued is on its way to the session.
Pending(p) == proc[p].pc = "install" \/ (proc[p].pc = "answer" /\ proc[p].answer = "granted")
\* A copy of what the session is now is on its way to the store.
Saving(p) == proc[p].pc = "save" /\ StillLive(p)

LockInv ==
    /\ \A p \in Proc : Refreshing(p) => refreshing = p
    /\ \A p \in Proc : proc[p].pc = "write" => persist = p
    /\ proc[LogOut].pc \in {"idle", "done", "clear", "failed"}
    /\ proc[LogOut].pc = "clear" => persist = LogOut
    /\ \A p \in Proc : proc[p].pc \in {"code", "install"} => p \in SignIns

\* Refresh tokens are those GOG issued so far.
IssuedInv ==
    /\ token.refresh <= Len(grants) /\ stored.refresh <= Len(grants)
    /\ \A p \in Proc : /\ proc[p].refresh <= Len(grants) /\ proc[p].new <= Len(grants)
                       /\ proc[p].copy.refresh <= Len(grants)

\* One that is on its way is nobody's yet, and GOG accepts it; an answer about
\* the token of the session is an answer in that session.
FreshInv ==
    /\ \A p \in Proc : Pending(p) =>
         /\ proc[p].new \notin {0, token.refresh} /\ proc[p].new \in valid \cup gone
         /\ \A q \in Proc : Asking(q) => proc[q].refresh # proc[p].new
         /\ \A q \in Proc \ {p} : Pending(q) => proc[q].new # proc[p].new
    /\ \A p \in Proc : proc[p].pc = "answer" /\ proc[p].answer = "granted" =>
         proc[p].refresh # 0 /\ grants[proc[p].new] = grants[proc[p].refresh]
    /\ \A p \in Proc : Asking(p) /\ proc[p].refresh # 0 /\ proc[p].refresh = token.refresh =>
         proc[p].session = session

\* Who holds the store writes what the session is, or somebody comes after him.
StoreInv ==
    /\ StoredIsLive
    /\ \A p \in Proc : proc[p].pc = "write" => StillLive(p) \/ \E q \in Proc : Saving(q)
    /\ proc[LogOut].pc = "clear" => token.refresh = 0 \/ \E q \in Proc : Saving(q)

\* What GOG said of a token is still true of it.
ValidInv ==
    /\ RefreshIsValid
    /\ \A p \in Proc : proc[p].pc = "answer" => proc[p].answer # "none"
    /\ \A p \in Proc : proc[p].pc = "answer" /\ proc[p].answer = "refused" =>
         /\ proc[p].refresh \notin valid
         /\ proc[p].refresh = token.refresh /\ token.refresh # 0 => token.refresh \in gone
    /\ \A p \in Proc : proc[p].pc = "answer" /\ proc[p].answer = "failed" =>
         (proc[p].refresh = token.refresh /\ token.refresh # 0 => token.refresh \in valid \cup gone)

\* A token that is marked is not accepted, in memory, in the store and on the
\* way there; while one is refreshed it is not marked.
Earned(t) == t.error /\ t.refresh # 0 => t.refresh \notin valid
ErrorInv ==
    /\ Earned(token) /\ Earned(stored)
    /\ \A p \in Proc : proc[p].pc \in {"save", "write"} => Earned(proc[p].copy)
    /\ \A p \in Proc : Refreshing(p) => ~token.error

IInv == TypeOK /\ LockInv /\ IssuedInv /\ FreshInv /\ StoreInv /\ ValidInv /\ ErrorInv

-----------------------------------------------------------------------------
(* What a goroutine becomes.                                               *)

LEMMA ConstantFacts ==
    /\ LogOut \in Proc /\ LogOut \notin SignIns /\ LogOut \notin Requests \cup GameRequests
    /\ 0 \in 0..MaxIssued /\ 1 \in 0..MaxIssued /\ 0 \in 0..(MaxTries - 1)
    /\ SignIns \subseteq Account /\ Nobody \in Account /\ First \in Account
    /\ Free \notin Proc
BY SessionAssumption DEF Proc, LogOut, Account

\* Nothing of a session is kept by it.
Blank(l) == l.refresh = 0 /\ l.new = 0 /\ l.copy = LoggedOut

LEMMA IdleTypes ==
    /\ LoggedOut \in Token
    /\ Idle \in Local /\ Blank(Idle) /\ Idle.pc = "idle"
    /\ Done \in Local /\ Blank(Done) /\ Done.pc = "done"
BY ConstantFacts DEF LoggedOut, Token, Idle, Done, Local, Pc, Blank

LEMMA FailedType ==
    ASSUME NEW p \in Proc
    PROVE  /\ Failed(p) \in Local /\ Blank(Failed(p))
           /\ Failed(p).pc \in {"idle", "done", "annotate"}
<1>1. CASE proc[p].part = "fetch"
  BY <1>1, ConstantFacts DEF Failed, LoggedOut, Token, Idle, Local, Pc, Blank
<1>2. CASE p \in SignIns /\ proc[p].part # "fetch"
  BY <1>2, IdleTypes DEF Failed
<1>3. CASE proc[p].part # "fetch" /\ p \notin SignIns
  BY <1>3, IdleTypes DEF Failed
<1>4. QED BY <1>1, <1>2, <1>3

LEMMA AfreshType ==
    ASSUME TypeOK, NEW p \in Proc, NEW pc \in Pc
    PROVE  /\ Afresh(p, pc) \in Local /\ Blank(Afresh(p, pc)) /\ Afresh(p, pc).pc = pc
<1>1. proc[p] \in Local
  BY DEF TypeOK
<1>2. QED BY <1>1, ConstantFacts DEF Afresh, LoggedOut, Token, Idle, Local, Blank

LEMMA RetriedType ==
    ASSUME TypeOK, NEW p \in Proc, NEW pc \in Pc
    PROVE  /\ Retried(p, pc) \in Local /\ Blank(Retried(p, pc))
           /\ Retried(p, pc).pc \in {pc, "idle", "done", "annotate"}
<1>1. CASE proc[p].tries + 1 < MaxTries
  <2>1. proc[p].tries + 1 \in 0..(MaxTries - 1)
    BY <1>1, SessionAssumption DEF TypeOK, Local
  <2>2. Afresh(p, pc) \in Local /\ Blank(Afresh(p, pc)) /\ Afresh(p, pc).pc = pc
    BY AfreshType
  <2> DEFINE l == Afresh(p, pc)
             n == proc[p].tries + 1
  <2>3. Retried(p, pc) = [l EXCEPT !.tries = n]
    BY <1>1 DEF Retried
  <2> HIDE DEF l, n
  <2>4. l \in Local /\ Blank(l) /\ l.pc = pc /\ n \in 0..(MaxTries - 1)
    BY <2>1, <2>2 DEF l, n
  <2>5. QED BY <2>3, <2>4 DEF Local, Blank
<1>2. CASE ~(proc[p].tries + 1 < MaxTries)
  BY <1>2, FailedType DEF Retried
<1>3. QED BY <1>1, <1>2

LEMMA CurrentType ==
    ASSUME TypeOK, NEW p \in Proc, NEW l
    PROVE  \/ CurrentToken(p, l) = l /\ ~Rejects
           \/ /\ CurrentToken(p, l) \in Local /\ Blank(CurrentToken(p, l))
              /\ CurrentToken(p, l).pc \in {"idle", "done", "annotate", "use"}
<1>1. "use" \in Pc
  BY DEF Pc
<1>2. QED BY <1>1, FailedType, AfreshType DEF CurrentToken

LEMMA Stepped ==
    ASSUME TypeOK, NEW p \in Proc, NEW l, Step(p, l)
    PROVE  /\ proc'[p] = l /\ \A q \in Proc : q # p => proc'[q] = proc[q]
           /\ l \in Local => proc' \in [Proc -> Local]
BY DEF TypeOK, Step

-----------------------------------------------------------------------------
LEMMA InitInv == Init => IInv
<1> SUFFICES ASSUME Init PROVE IInv
  OBVIOUS
<1>1. \A p \in Proc : proc[p] \in {Idle, Done}
  BY DEF Init
<1>2. proc \in [Proc -> Local]
  BY IdleTypes DEF Init
<1>3. \A p \in Proc : Blank(proc[p]) /\ proc[p].pc \in {"idle", "done"}
  BY <1>1, IdleTypes
<1>4. stored \in Token /\ token = stored /\ ~token.error
  <2>1. CASE stored = LoggedOut
    BY <2>1, ConstantFacts DEF Init, LoggedOut, Token
  <2>2. CASE stored = Answered(1)
    BY <2>2, ConstantFacts DEF Init, Answered, Token
  <2>3. QED BY <2>1, <2>2 DEF Init
<1>5. CASE stored = LoggedOut
  <2>1. grants = <<>> /\ valid = {} /\ gone = {} /\ token.refresh = 0 /\ stored.refresh = 0
    BY <1>5 DEF Init, LoggedOut
  <2>2. TypeOK
    <3>1. grants \in Seq(Account) /\ Len(grants) = 0
      BY <2>1
    <3>2. QED BY <1>2, <1>4, <2>1, <3>1, SessionAssumption, ConstantFacts DEF Init, TypeOK
  <2>3. IssuedInv
    BY <1>3, <2>1 DEF IssuedInv, Blank, LoggedOut
  <2>4. LockInv
    BY <1>3, ConstantFacts DEF LockInv, Refreshing
  <2>5. FreshInv
    BY <1>3 DEF FreshInv, Asking, Pending
  <2>6. StoreInv
    BY <1>3, <1>4, ConstantFacts DEF StoreInv, StoredIsLive
  <2>7. ValidInv
    BY <1>3, <2>1 DEF ValidInv, RefreshIsValid
  <2>8. ErrorInv
    BY <1>3, <1>4 DEF ErrorInv, Earned, Refreshing
  <2>9. QED BY <2>2, <2>3, <2>4, <2>5, <2>6, <2>7, <2>8 DEF IInv
<1>6. CASE stored # LoggedOut
  <2>1. grants = <<First>> /\ valid = {1} /\ gone = {} /\ token.refresh = 1 /\ stored.refresh = 1
    BY <1>6 DEF Init, Answered
  <2>2. grants \in Seq(Account) /\ Len(grants) = 1
    BY <2>1, ConstantFacts
  <2>3. TypeOK
    BY <1>2, <1>4, <2>1, <2>2, SessionAssumption, ConstantFacts DEF Init, TypeOK
  <2>4. IssuedInv
    BY <1>3, <2>1, <2>2 DEF IssuedInv, Blank, LoggedOut
  <2>5. LockInv
    BY <1>3, ConstantFacts DEF LockInv, Refreshing
  <2>6. FreshInv
    BY <1>3 DEF FreshInv, Asking, Pending
  <2>7. StoreInv
    BY <1>3, <1>4, ConstantFacts DEF StoreInv, StoredIsLive
  <2>8. ValidInv
    BY <1>3, <2>1 DEF ValidInv, RefreshIsValid
  <2>9. ErrorInv
    BY <1>3, <1>4 DEF ErrorInv, Earned, Refreshing
  <2>10. QED BY <2>3, <2>4, <2>5, <2>6, <2>7, <2>8, <2>9 DEF IInv
<1>7. QED BY <1>5, <1>6

-----------------------------------------------------------------------------
(* Steps of one goroutine that leave the session, the store and GOG alone. *)

QuietStep(p, l) ==
    /\ p # LogOut /\ l \in Local /\ Step(p, l)
    /\ l.pc \notin {"read", "send", "answer", "save", "write", "install", "clear", "failed"}
    /\ l.pc = "code" => p \in SignIns
    /\ l.refresh <= Len(grants) /\ l.new <= Len(grants) /\ l.copy.refresh <= Len(grants)
    /\ proc[p].pc # "write" /\ (proc[p].pc = "save" => ~StillLive(p))
    /\ proc[p].pc = "answer" /\ proc[p].refresh = token.refresh /\ token.refresh # 0 =>
         token.refresh \in valid \cup gone
    /\ token' \in Token /\ token'.refresh = token.refresh /\ token'.error = token.error
    /\ gameToken' \in Account
    /\ refreshing' \in {refreshing, Unlocked(p, refreshing)}
    /\ UNCHANGED <<session, stored, persist, gog>>

LEMMA QuietInv ==
    ASSUME IInv, NEW p \in Proc, NEW l, QuietStep(p, l)
    PROVE  IInv'
<1>1. proc'[p] = l /\ (\A q \in Proc : q # p => proc'[q] = proc[q])
      /\ proc' \in [Proc -> Local]
  BY Stepped DEF QuietStep, IInv
<1>2. LogOut \in Proc /\ p # LogOut /\ Free \notin Proc
  BY ConstantFacts DEF QuietStep
<1>3. l.pc \notin {"read", "send", "answer", "save", "write", "install", "clear", "failed"}
      /\ (l.pc = "code" => p \in SignIns)
      /\ proc[p].pc # "write" /\ (proc[p].pc = "save" => ~StillLive(p))
  BY DEF QuietStep
<1>4. token'.refresh = token.refresh /\ token'.error = token.error /\ session' = session
      /\ stored' = stored /\ persist' = persist
      /\ grants' = grants /\ valid' = valid /\ gone' = gone
  BY DEF QuietStep, gog
<1>5. refreshing' \in {refreshing, Free}
      /\ (\A q \in Proc : q # p /\ refreshing = q => refreshing' = q)
  BY DEF QuietStep, Unlocked
<1>6. TypeOK'
  BY <1>1, <1>2, <1>4, <1>5 DEF IInv, TypeOK, QuietStep
<1>7. LockInv'
  BY <1>1, <1>2, <1>3, <1>4, <1>5 DEF IInv, LockInv, Refreshing
<1>8. IssuedInv'
  BY <1>1, <1>4 DEF QuietStep, IInv, IssuedInv
<1>9. FreshInv'
  BY <1>1, <1>3, <1>4 DEF IInv, FreshInv, Asking, Pending
<1>10. StoreInv'
  BY <1>1, <1>2, <1>3, <1>4 DEF IInv, StoreInv, StoredIsLive, StillLive, Saving
<1>11. ValidInv'
  BY <1>1, <1>3, <1>4 DEF QuietStep, IInv, ValidInv, RefreshIsValid
<1>12. ErrorInv'
  <2>1. Earned(token') /\ Earned(stored)
    BY <1>4 DEF IInv, ErrorInv, Earned
  <2>2. \A t : Earned(t)' <=> Earned(t)
    BY <1>4 DEF Earned
  <2>3. QED BY <1>1, <1>3, <1>4, <2>1, <2>2 DEF IInv, ErrorInv, Earned, Refreshing
<1>13. QED
  BY <1>6, <1>7, <1>8, <1>9, <1>10, <1>11, <1>12 DEF IInv

LEMMA BlankFits ==
    ASSUME TypeOK, NEW l, Blank(l)
    PROVE  l.refresh <= Len(grants) /\ l.new <= Len(grants) /\ l.copy.refresh <= Len(grants)
BY DEF TypeOK, Blank, LoggedOut

\* Where the logout is, only it goes on.
LEMMA LogOutApart ==
    ASSUME IInv, NEW p \in Proc, proc[p].pc \notin {"idle", "done", "clear", "failed"}
    PROVE  p # LogOut
BY DEF IInv, LockInv

LEMMA GotoFits ==
    ASSUME IInv, NEW p \in Proc, NEW pc \in Pc
    PROVE  /\ Goto(p, pc) \in Local /\ Goto(p, pc).pc = pc
           /\ Goto(p, pc) = [proc[p] EXCEPT !.pc = pc]
           /\ Goto(p, pc).refresh = proc[p].refresh /\ Goto(p, pc).refresh <= Len(grants)
           /\ Goto(p, pc).new <= Len(grants) /\ Goto(p, pc).copy.refresh <= Len(grants)
BY DEF IInv, TypeOK, IssuedInv, Goto, Local

LEMMA BeginInv == ASSUME IInv, NEW p \in Proc, Begin(p) PROVE IInv'
<1> DEFINE pc == IF p \in SignIns THEN "code" ELSE "ask"
           l == Goto(p, pc)
<1>1. pc \in Pc
  BY DEF Pc
<1>2. p # LogOut
  BY ConstantFacts DEF Begin
<1>3. QuietStep(p, l)
  BY <1>1, <1>2, GotoFits DEF QuietStep, Begin, client, locks, IInv, TypeOK
<1>4. QED BY <1>3, QuietInv

LEMMA AskInv == ASSUME IInv, NEW p \in Proc, Ask(p) PROVE IInv'
<1> DEFINE l == CurrentToken(p, Goto(p, "lock"))
<1>1. "lock" \in Pc
  BY DEF Pc
<1>2. p # LogOut
  BY LogOutApart DEF Ask
<1>3. l \in Local /\ l.pc \in {"lock", "idle", "done", "annotate", "use"}
      /\ l.refresh <= Len(grants) /\ l.new <= Len(grants) /\ l.copy.refresh <= Len(grants)
  BY <1>1, GotoFits, CurrentType, BlankFits DEF IInv
<1> HIDE DEF l
<1>4. QuietStep(p, l)
  BY <1>2, <1>3 DEF QuietStep, Ask, client, locks, IInv, TypeOK, l
<1>5. QED BY <1>4, QuietInv

LEMMA UseInv == ASSUME IInv, NEW p \in Proc, Use(p) PROVE IInv'
<1>1. p # LogOut
  BY LogOutApart DEF Use
<1>2. PICK l \in {Succeeded(p), Retried(p, "ask")} :
        Step(p, l) /\ token' \in {token, [token EXCEPT !.access = "none"]}
  BY DEF Use
<1>3. "ask" \in Pc /\ "annotate" \in Pc
  BY DEF Pc
<1>4. Succeeded(p) \in Local /\ Blank(Succeeded(p)) /\ Succeeded(p).pc \in {"idle", "annotate"}
  BY IdleTypes, ConstantFacts DEF Succeeded, Idle, Local, Pc, Blank
<1>5. l \in Local /\ Blank(l) /\ l.pc \in {"ask", "idle", "done", "annotate"}
  BY <1>3, <1>4, RetriedType DEF IInv
<1>6. l.refresh <= Len(grants) /\ l.new <= Len(grants) /\ l.copy.refresh <= Len(grants)
  BY <1>5, BlankFits DEF IInv
<1>7. token' \in Token /\ token'.refresh = token.refresh /\ token'.error = token.error
  BY <1>2 DEF IInv, TypeOK, Token
<1>8. QuietStep(p, l)
  BY <1>1, <1>2, <1>5, <1>6, <1>7 DEF QuietStep, Use, locks, IInv, TypeOK
<1>9. QED BY <1>8, QuietInv

LEMMA AskGameInv == ASSUME IInv, NEW p \in Proc, AskGame(p) PROVE IInv'
<1>1. p # LogOut /\ proc[p].pc = "idle"
  BY ConstantFacts DEF AskGame
<1>2. "list" \in Pc /\ "check" \in Pc
  BY DEF Pc
<1>3. CASE gameToken # Nobody
  <2> DEFINE m == Goto(p, "list")
             l == [m EXCEPT !.as = gameToken]
  <2>0. m \in Local /\ m.pc = "list"
        /\ m.refresh <= Len(grants) /\ m.new <= Len(grants) /\ m.copy.refresh <= Len(grants)
    BY <1>2, GotoFits
  <2> HIDE DEF m
  <2>1. l \in Local /\ l.pc = "list"
        /\ l.refresh <= Len(grants) /\ l.new <= Len(grants) /\ l.copy.refresh <= Len(grants)
    BY <2>0 DEF Local, IInv, TypeOK, IssuedInv, Token
  <2>2. Step(p, l) /\ UNCHANGED <<client, stored, locks, gog>>
    BY <1>3 DEF AskGame, m
  <2> HIDE DEF l
  <2>3. QuietStep(p, l)
    BY <1>1, <2>1, <2>2 DEF QuietStep, client, locks, IInv, TypeOK
  <2>4. QED BY <2>3, QuietInv
<1>4. CASE gameToken = Nobody
  <2> DEFINE m == Goto(p, "check")
             l == [m EXCEPT !.refresh = token.refresh]
  <2>0. m \in Local /\ m.pc = "check"
        /\ m.refresh <= Len(grants) /\ m.new <= Len(grants) /\ m.copy.refresh <= Len(grants)
    BY <1>2, GotoFits
  <2> HIDE DEF m
  <2>1. l \in Local /\ l.pc = "check"
        /\ l.refresh <= Len(grants) /\ l.new <= Len(grants) /\ l.copy.refresh <= Len(grants)
    BY <2>0 DEF Local, IInv, TypeOK, IssuedInv, Token
  <2>2. Step(p, l) /\ UNCHANGED <<client, stored, locks, gog>>
    BY <1>4 DEF AskGame, m
  <2> HIDE DEF l
  <2>3. QuietStep(p, l)
    BY <1>1, <2>1, <2>2 DEF QuietStep, client, locks, IInv, TypeOK
  <2>4. QED BY <2>3, QuietInv
<1>5. QED BY <1>3, <1>4

LEMMA CheckSessionInv == ASSUME IInv, NEW p \in Proc, CheckSession(p) PROVE IInv'
<1> DEFINE l == IF Rejects THEN Idle ELSE Goto(p, "grant")
<1>1. p # LogOut
  BY LogOutApart DEF CheckSession
<1>2. "grant" \in Pc
  BY DEF Pc
<1>3. l \in Local /\ l.pc \in {"idle", "grant"}
      /\ l.refresh <= Len(grants) /\ l.new <= Len(grants) /\ l.copy.refresh <= Len(grants)
  BY <1>2, GotoFits, IdleTypes, BlankFits DEF IInv
<1>4. Step(p, l) /\ proc[p].pc = "check" /\ UNCHANGED <<client, stored, locks, gog>>
  BY DEF CheckSession
<1> HIDE DEF l
<1>5. QuietStep(p, l)
  BY <1>1, <1>3, <1>4 DEF QuietStep, client, locks, IInv, TypeOK
<1>6. QED BY <1>5, QuietInv

LEMMA OwnerType == ASSUME TypeOK, NEW r \in valid \cup gone PROVE Owner(r) \in Account
<1>1. grants \in Seq(Account) /\ r \in 1..Len(grants)
  BY DEF TypeOK
<1>2. grants[r] \in Account
  BY <1>1, ElementOfSeq
<1>3. QED BY <1>2, ConstantFacts DEF Owner

LEMMA GrantGameInv == ASSUME IInv, NEW p \in Proc, GrantGame(p) PROVE IInv'
<1>1. p # LogOut
  BY LogOutApart DEF GrantGame
<1>2. CASE Step(p, Idle)
  <2>1. QuietStep(p, Idle)
    BY <1>1, <1>2, IdleTypes, BlankFits DEF QuietStep, GrantGame, client, locks, IInv, TypeOK
  <2>2. QED BY <2>1, QuietInv
<1>3. CASE /\ proc[p].refresh \in valid
           /\ Step(p, [Goto(p, "cache") EXCEPT !.as = Owner(proc[p].refresh)])
  <2> DEFINE o == Owner(proc[p].refresh)
             l == [Goto(p, "cache") EXCEPT !.as = o]
  <2>1. "cache" \in Pc
    BY DEF Pc
  <2>2. o \in Account
    BY <1>3, OwnerType DEF IInv
  <2> HIDE DEF o
  <2>3. l \in Local /\ l.pc = "cache"
        /\ l.refresh <= Len(grants) /\ l.new <= Len(grants) /\ l.copy.refresh <= Len(grants)
    BY <2>1, <2>2, GotoFits DEF Local
  <2>4. Step(p, l) /\ proc[p].pc = "grant" /\ UNCHANGED <<client, stored, locks, gog>>
    BY <1>3 DEF GrantGame, o
  <2> HIDE DEF l
  <2>5. QuietStep(p, l)
    BY <1>1, <2>3, <2>4 DEF QuietStep, client, locks, IInv, TypeOK
  <2>6. QED BY <2>5, QuietInv
<1>4. QED BY <1>2, <1>3 DEF GrantGame

LEMMA CacheGameTokenInv == ASSUME IInv, NEW p \in Proc, CacheGameToken(p) PROVE IInv'
<1> DEFINE l == Goto(p, "list")
<1>1. p # LogOut
  BY LogOutApart DEF CacheGameToken
<1>2. "list" \in Pc
  BY DEF Pc
<1>3. proc[p].as \in Account
  BY DEF IInv, TypeOK, Local
<1>4. QuietStep(p, l)
  BY <1>1, <1>2, <1>3, GotoFits DEF QuietStep, CacheGameToken, locks, IInv, TypeOK
<1>5. QED BY <1>4, QuietInv

LEMMA ListSavesInv == ASSUME IInv, NEW p \in Proc, ListSaves(p) PROVE IInv'
<1>1. p # LogOut
  BY LogOutApart DEF ListSaves
<1>2. "idle" \in Pc /\ "list" \in Pc
  BY DEF Pc
<1>3. PICK l \in {Idle, Retried(p, "idle")} : Step(p, l) /\ gameToken' \in {gameToken, Nobody}
  BY DEF ListSaves
<1>4. l \in Local /\ Blank(l) /\ l.pc \in {"idle", "done", "annotate"}
  BY <1>2, RetriedType, IdleTypes DEF IInv
<1>5. l.refresh <= Len(grants) /\ l.new <= Len(grants) /\ l.copy.refresh <= Len(grants)
  BY <1>4, BlankFits DEF IInv
<1>6. QuietStep(p, l)
  BY <1>1, <1>3, <1>4, <1>5, ConstantFacts DEF QuietStep, ListSaves, locks, IInv, TypeOK
<1>7. QED BY <1>6, QuietInv

-----------------------------------------------------------------------------
(* The refresh.                                                            *)

LEMMA LockRefreshInv == ASSUME IInv, NEW p \in Proc, LockRefresh(p) PROVE IInv'
<1> DEFINE m == Goto(p, "read")
           l == CurrentToken(p, m)
<1>1. "read" \in Pc
  BY DEF Pc
<1>2. p # LogOut
  BY LogOutApart DEF LockRefresh
<1>3. proc[p].pc = "lock" /\ refreshing = Free /\ Step(p, l)
      /\ refreshing' = (IF proc'[p].pc = "read" THEN p ELSE refreshing)
      /\ token' = token /\ session' = session /\ gameToken' = gameToken
      /\ stored' = stored /\ persist' = persist
      /\ grants' = grants /\ valid' = valid /\ gone' = gone
  BY DEF LockRefresh, MayRefresh, client, gog
<1>4. m \in Local /\ m.pc = "read"
      /\ m.refresh <= Len(grants) /\ m.new <= Len(grants) /\ m.copy.refresh <= Len(grants)
  BY <1>1, GotoFits
<1> HIDE DEF m
<1>5. \/ l = m /\ ~Rejects
      \/ l \in Local /\ Blank(l) /\ l.pc \in {"idle", "done", "annotate", "use"}
  BY CurrentType DEF IInv
<1> HIDE DEF l
<1>6. l \in Local
  BY <1>4, <1>5
<1>7. proc'[p] = l /\ (\A q \in Proc : q # p => proc'[q] = proc[q])
      /\ proc' \in [Proc -> Local]
  BY <1>3, <1>6, Stepped DEF IInv
<1>8. CASE l \in Local /\ Blank(l) /\ l.pc \in {"idle", "done", "annotate", "use"}
  <2>1. refreshing' = refreshing
    BY <1>3, <1>7, <1>8
  <2>2. QuietStep(p, l)
    BY <1>2, <1>3, <1>8, <2>1, BlankFits DEF QuietStep, IInv, TypeOK, gog
  <2>3. QED BY <2>2, QuietInv
<1>9. CASE l = m /\ ~Rejects
  <2>1. refreshing' = p /\ proc'[p].pc = "read"
    BY <1>3, <1>4, <1>7, <1>9
  <2>2. \A q \in Proc : ~Refreshing(q)
    BY <1>3, ConstantFacts DEF IInv, LockInv
  <2>3. TypeOK'
    BY <1>3, <1>7, <2>1 DEF IInv, TypeOK
  <2>4. LockInv'
    BY <1>2, <1>3, <1>7, <2>1, <2>2, ConstantFacts DEF IInv, LockInv, Refreshing
  <2>5. IssuedInv'
    BY <1>3, <1>4, <1>7, <1>9 DEF IInv, IssuedInv
  <2>6. FreshInv'
    BY <1>3, <1>7, <2>1 DEF IInv, FreshInv, Asking, Pending
  <2>7. StoreInv'
    BY <1>2, <1>3, <1>7, <2>1, ConstantFacts DEF IInv, StoreInv, StoredIsLive, StillLive, Saving
  <2>8. ValidInv'
    BY <1>3, <1>7, <2>1 DEF IInv, ValidInv, RefreshIsValid
  <2>9. ErrorInv'
    <3>1. ~token.error
      BY <1>9 DEF Rejects
    <3>2. QED BY <1>3, <1>7, <2>1, <3>1 DEF IInv, ErrorInv, Earned, Refreshing
  <2>10. QED BY <2>3, <2>4, <2>5, <2>6, <2>7, <2>8, <2>9 DEF IInv
<1>10. QED BY <1>5, <1>8, <1>9

LEMMA ReadRefreshInv == ASSUME IInv, NEW p \in Proc, ReadRefresh(p) PROVE IInv'
<1> DEFINE m == Goto(p, "send")
           l == [m EXCEPT !.refresh = token.refresh, !.session = session]
<1>1. "send" \in Pc
  BY DEF Pc
<1>2. p # LogOut
  BY LogOutApart DEF ReadRefresh
<1>3. proc[p].pc = "read" /\ Step(p, l)
      /\ token' = token /\ session' = session /\ gameToken' = gameToken
      /\ stored' = stored /\ persist' = persist /\ refreshing' = refreshing
      /\ grants' = grants /\ valid' = valid /\ gone' = gone
  BY DEF ReadRefresh, client, gog, locks
<1>4. m \in Local /\ m.pc = "send" /\ m.new <= Len(grants) /\ m.copy.refresh <= Len(grants)
  BY <1>1, GotoFits
<1> HIDE DEF m
<1>5. token.refresh \in 0..MaxIssued /\ session \in Nat
  BY DEF IInv, TypeOK, Token
<1>6. l \in Local /\ l.pc = "send" /\ l.refresh = token.refresh /\ l.session = session
      /\ l.new = m.new /\ l.copy = m.copy
  BY <1>4, <1>5 DEF Local
<1> HIDE DEF l
<1>7. proc'[p] = l /\ (\A q \in Proc : q # p => proc'[q] = proc[q])
      /\ proc' \in [Proc -> Local]
  BY <1>3, <1>6, Stepped DEF IInv
<1>8. Refreshing(p) /\ refreshing = p
  BY <1>3 DEF IInv, LockInv, Refreshing
<1>9. TypeOK'
  BY <1>3, <1>7 DEF IInv, TypeOK
<1>10. LockInv'
  BY <1>2, <1>3, <1>6, <1>7, <1>8, ConstantFacts DEF IInv, LockInv, Refreshing
<1>11. IssuedInv'
  BY <1>3, <1>4, <1>6, <1>7 DEF IInv, IssuedInv
<1>12. FreshInv'
  BY <1>3, <1>6, <1>7 DEF IInv, FreshInv, Asking, Pending
<1>13. StoreInv'
  BY <1>2, <1>3, <1>6, <1>7, ConstantFacts DEF IInv, StoreInv, StoredIsLive, StillLive, Saving
<1>14. ValidInv'
  BY <1>3, <1>6, <1>7 DEF IInv, ValidInv, RefreshIsValid
<1>15. ErrorInv'
  BY <1>3, <1>6, <1>7, <1>8 DEF IInv, ErrorInv, Earned, Refreshing
<1>16. QED BY <1>9, <1>10, <1>11, <1>12, <1>13, <1>14, <1>15 DEF IInv

-----------------------------------------------------------------------------
(* GOG's answer.                                                           *)

LEMMA Known ==
    ASSUME IInv
    PROVE  /\ Len(grants) \in Nat /\ Len(grants) <= MaxIssued
           /\ token.refresh \in 0..Len(grants) /\ stored.refresh \in 0..Len(grants)
           /\ \A q \in Proc : /\ proc[q].refresh \in 0..Len(grants)
                              /\ proc[q].new \in 0..Len(grants)
                              /\ proc[q].copy.refresh \in 0..Len(grants)
<1>1. Len(grants) \in Nat /\ Len(grants) <= MaxIssued
  BY LenProperties DEF IInv, TypeOK
<1>2. token.refresh \in 0..Len(grants) /\ stored.refresh \in 0..Len(grants)
  BY <1>1 DEF IInv, TypeOK, IssuedInv, Token
<1>3. ASSUME NEW q \in Proc
      PROVE  /\ proc[q].refresh \in 0..Len(grants) /\ proc[q].new \in 0..Len(grants)
             /\ proc[q].copy.refresh \in 0..Len(grants)
  BY <1>1 DEF IInv, TypeOK, IssuedInv, Token, Local
<1>4. QED BY <1>1, <1>2, <1>3

LEMMA Issued ==
    ASSUME IInv, NEW owner \in Account, NEW old, Issue(owner, old)
    PROVE  /\ grants' \in Seq(Account) /\ Len(grants') = Len(grants) + 1
           /\ Len(grants') <= MaxIssued /\ Len(grants) + 1 \in 1..MaxIssued
           /\ \A i \in 1..Len(grants) : grants'[i] = grants[i]
           /\ grants'[Len(grants) + 1] = owner
           /\ valid' = (valid \ old) \cup {Len(grants) + 1}
           /\ valid' \subseteq 1..Len(grants')
<1>1. grants \in Seq(Account) /\ Len(grants) \in Nat /\ MaxIssued \in Nat /\ Len(grants) < MaxIssued
      /\ grants' = Append(grants, owner)
  BY Known, SessionAssumption DEF IInv, TypeOK, Issue
<1>2. grants' \in Seq(Account) /\ Len(grants') = Len(grants) + 1
      /\ (\A i \in 1..Len(grants) : grants'[i] = grants[i]) /\ grants'[Len(grants) + 1] = owner
  BY <1>1, AppendProperties
<1>3. Len(grants') <= MaxIssued /\ Len(grants) + 1 \in 1..MaxIssued
  BY <1>1, <1>2
<1>4. valid' = (valid \ old) \cup {Len(grants) + 1}
  BY DEF Issue
<1>5. valid' \subseteq 1..Len(grants')
  <2> DEFINE n == Len(grants)
  <2>1. valid \subseteq 1..n
    BY DEF IInv, TypeOK
  <2>2. n \in Nat /\ Len(grants') = n + 1 /\ valid' \subseteq valid \cup {n + 1}
    BY <1>1, <1>2, <1>4
  <2> HIDE DEF n
  <2>3. QED BY <2>1, <2>2
<1>6. QED BY <1>2, <1>3, <1>4, <1>5

LEMMA Replied ==
    ASSUME IInv, NEW p \in Proc, NEW a \in {"granted", "refused", "failed"}, NEW k \in 0..MaxIssued,
           Step(p, [Goto(p, "answer") EXCEPT !.answer = a, !.new = k])
    PROVE  /\ \A q \in Proc : q # p => proc'[q] = proc[q]
           /\ proc' \in [Proc -> Local]
           /\ proc'[p].pc = "answer" /\ proc'[p].answer = a /\ proc'[p].new = k
           /\ proc'[p].refresh = proc[p].refresh /\ proc'[p].session = proc[p].session
           /\ proc'[p].copy = proc[p].copy
<1> DEFINE m == Goto(p, "answer")
           l == [m EXCEPT !.answer = a, !.new = k]
<1>1. proc[p] \in Local /\ "answer" \in Pc
  BY DEF IInv, TypeOK, Pc
<1>2. m \in Local /\ m.pc = "answer" /\ m.refresh = proc[p].refresh /\ m.session = proc[p].session
      /\ m.copy = proc[p].copy
  BY <1>1 DEF Goto, Local
<1> HIDE DEF m
<1>3. l \in Local /\ l.pc = "answer" /\ l.answer = a /\ l.new = k
      /\ l.refresh = m.refresh /\ l.session = m.session /\ l.copy = m.copy
  BY <1>2 DEF Local
<1>4. Step(p, l)
  BY DEF m
<1> HIDE DEF l
<1>5. QED BY <1>2, <1>3, <1>4, Stepped DEF IInv

\* Only one goroutine is between its look at the session and the answer.
LEMMA OneRefreshes ==
    ASSUME IInv, NEW p \in Proc, NEW q \in Proc, Refreshing(p), Refreshing(q)
    PROVE  p = q
BY DEF IInv, LockInv

\* What is sent of the session is a token GOG knows about.
LEMMA SentIsKnown ==
    ASSUME IInv, NEW p \in Proc, proc[p].pc = "send", proc[p].refresh = token.refresh, token.refresh # 0
    PROVE  token.refresh \in valid \cup gone
<1>1. ASSUME NEW q \in Proc, proc[q].pc = "answer"
      PROVE  FALSE
  BY <1>1, OneRefreshes DEF Refreshing
<1>2. QED BY <1>1 DEF IInv, ValidInv, RefreshIsValid

\* An answer that nothing was issued for.
LEMMA UnissuedInv ==
    ASSUME IInv, NEW p \in Proc, NEW a \in {"refused", "failed"}, proc[p].pc = "send",
           Step(p, [Goto(p, "answer") EXCEPT !.answer = a, !.new = 0]),
           a = "refused" => proc[p].refresh \notin valid,
           UNCHANGED <<client, stored, locks, gog>>
    PROVE  IInv'
<1>1. token' = token /\ session' = session /\ gameToken' = gameToken /\ stored' = stored
      /\ persist' = persist /\ refreshing' = refreshing
      /\ grants' = grants /\ valid' = valid /\ gone' = gone
  BY DEF client, locks, gog
<1>2. (\A q \in Proc : q # p => proc'[q] = proc[q]) /\ proc' \in [Proc -> Local]
      /\ proc'[p].pc = "answer" /\ proc'[p].answer = a /\ proc'[p].new = 0
      /\ proc'[p].refresh = proc[p].refresh /\ proc'[p].session = proc[p].session
      /\ proc'[p].copy = proc[p].copy
  BY Replied, ConstantFacts
<1>3. p # LogOut /\ LogOut \in Proc
  BY LogOutApart, ConstantFacts
<1>4. refreshing = p /\ ~token.error
  BY DEF IInv, LockInv, ErrorInv, Refreshing
<1>5. proc[p].refresh = token.refresh /\ token.refresh # 0 => token.refresh \in valid \cup gone
  BY SentIsKnown
<1>6. TypeOK'
  BY <1>1, <1>2 DEF IInv, TypeOK
<1>7. LockInv'
  BY <1>1, <1>2, <1>3, <1>4 DEF IInv, LockInv, Refreshing
<1>8. IssuedInv'
  <2>1. 0 <= Len(grants)
    BY Known
  <2>2. QED BY <1>1, <1>2, <2>1 DEF IInv, IssuedInv
<1>9. FreshInv'
  BY <1>1, <1>2 DEF IInv, FreshInv, Asking, Pending
<1>10. StoreInv'
  BY <1>1, <1>2, <1>3 DEF IInv, StoreInv, StoredIsLive, StillLive, Saving
<1>11. ValidInv'
  BY <1>1, <1>2, <1>5 DEF IInv, ValidInv, RefreshIsValid
<1>12. ErrorInv'
  BY <1>1, <1>2, <1>4 DEF IInv, ErrorInv, Earned, Refreshing
<1>13. QED BY <1>6, <1>7, <1>8, <1>9, <1>10, <1>11, <1>12 DEF IInv

\* GOG exchanges the token; the answer may get lost.
LEMMA ExchangedInv ==
    ASSUME IInv, NEW p \in Proc, NEW a \in {"granted", "failed"}, NEW k, proc[p].pc = "send",
           proc[p].refresh \in valid, Issue(Owner(proc[p].refresh), {proc[p].refresh}),
           Step(p, [Goto(p, "answer") EXCEPT !.answer = a, !.new = k]),
           \/ a = "granted" /\ k = Len(grants) + 1 /\ gone' = gone
           \/ a = "failed" /\ k = 0 /\ gone' = gone \cup {proc[p].refresh, Len(grants) + 1},
           UNCHANGED <<client, stored, locks>>
    PROVE  IInv'
<1> DEFINE r == proc[p].refresh
           n == Len(grants) + 1
<1>1. token' = token /\ session' = session /\ gameToken' = gameToken /\ stored' = stored
      /\ persist' = persist /\ refreshing' = refreshing
  BY DEF client, locks
<1>2. Owner(r) \in Account /\ r \in 1..Len(grants) /\ Owner(r) = grants[r]
  <2>1. Owner(r) \in Account
    BY OwnerType DEF IInv
  <2>2. QED BY <2>1 DEF IInv, TypeOK, Owner
<1>3. /\ grants' \in Seq(Account) /\ Len(grants') = n /\ n <= MaxIssued /\ n \in 1..MaxIssued
      /\ \A i \in 1..Len(grants) : grants'[i] = grants[i]
      /\ grants'[n] = grants[r] /\ valid' = (valid \ {r}) \cup {n} /\ valid' \subseteq 1..n
  BY <1>2, Issued
<1>4. (\A q \in Proc : q # p => proc'[q] = proc[q]) /\ proc' \in [Proc -> Local]
      /\ proc'[p].pc = "answer" /\ proc'[p].answer = a /\ proc'[p].new = k
      /\ proc'[p].refresh = r /\ proc'[p].session = proc[p].session
      /\ proc'[p].copy = proc[p].copy
  <2>1. k \in 0..MaxIssued
    BY <1>3, ConstantFacts
  <2>2. QED BY <2>1, Replied
<1>5. p # LogOut /\ LogOut \in Proc
  BY LogOutApart, ConstantFacts
<1>6. refreshing = p /\ ~token.error
  BY DEF IInv, LockInv, ErrorInv, Refreshing
<1>7. \A q \in Proc : q # p => ~Refreshing(q)
  BY <1>6 DEF IInv, LockInv
<1>8. /\ Len(grants) \in Nat /\ n \notin 0..Len(grants) /\ n # 0
      /\ token.refresh \in 0..Len(grants) /\ stored.refresh \in 0..Len(grants)
      /\ \A q \in Proc : /\ proc[q].refresh \in 0..Len(grants) /\ proc[q].new \in 0..Len(grants)
                         /\ proc[q].copy.refresh \in 0..Len(grants)
  BY Known
<1>9. gone \subseteq gone' /\ gone' \subseteq gone \cup {r, n}
      /\ (a = "failed" => r \in gone') /\ (a = "granted" => k = n)
  OBVIOUS
<1>10. TypeOK'
  <2>1. gone \subseteq 1..Len(grants)
    BY DEF IInv, TypeOK
  <2>2. gone' \subseteq 1..n
    BY <1>2, <1>8, <1>9, <2>1
  <2>3. QED BY <1>1, <1>3, <1>4, <2>2 DEF IInv, TypeOK
<1>11. LockInv'
  BY <1>1, <1>4, <1>5, <1>6 DEF IInv, LockInv, Refreshing
<1>12. IssuedInv'
  <2>1. \A i \in 0..Len(grants) : i <= n
    BY <1>8
  <2>2. k <= n
    BY <1>8
  <2>3. QED BY <1>1, <1>3, <1>4, <1>8, <2>1, <2>2 DEF IssuedInv
<1> HIDE DEF n, r
<1>13. FreshInv'
  <2>1. Asking(p) /\ r = proc[p].refresh
    BY DEF Asking, r
  <2>2. ASSUME NEW q \in Proc, Pending(q)'
        PROVE  proc'[q].new # 0 /\ proc'[q].new # token.refresh /\ proc'[q].new \in valid' \cup gone'
    <3>1. CASE q = p
      BY <1>3, <1>4, <1>8, <1>9, <2>2, <3>1 DEF Pending
    <3>2. CASE q # p
      BY <1>3, <1>4, <1>9, <2>1, <2>2, <3>2 DEF Pending, IInv, FreshInv
    <3>3. QED BY <3>1, <3>2
  <2>3. ASSUME NEW q \in Proc, Pending(q)', NEW o \in Proc, Asking(o)'
        PROVE  proc'[o].refresh # proc'[q].new
    <3>1. CASE q = p
      <4>1. proc'[q].new = n
        BY <1>4, <1>9, <2>3, <3>1 DEF Pending
      <4>2. proc'[o].refresh \in 0..Len(grants)
        BY <1>4, <1>8, <2>1
      <4>3. QED BY <1>8, <4>1, <4>2
    <3>2. CASE q # p
      BY <1>4, <2>1, <2>3, <3>2 DEF Pending, Asking, IInv, FreshInv
    <3>3. QED BY <3>1, <3>2
  <2>4. ASSUME NEW q \in Proc, Pending(q)', NEW o \in Proc \ {q}, Pending(o)'
        PROVE  proc'[o].new # proc'[q].new
    <3>1. CASE q = p
      BY <1>4, <1>8, <1>9, <2>4, <3>1 DEF Pending
    <3>2. CASE o = p
      BY <1>4, <1>8, <1>9, <2>4, <3>2 DEF Pending
    <3>3. CASE q # p /\ o # p
      BY <1>4, <2>4, <3>3 DEF Pending, IInv, FreshInv
    <3>4. QED BY <3>1, <3>2, <3>3
  <2>5. ASSUME NEW q \in Proc, proc'[q].pc = "answer", proc'[q].answer = "granted"
        PROVE  proc'[q].refresh # 0 /\ grants'[proc'[q].new] = grants'[proc'[q].refresh]
    <3>1. q = p
      BY <1>4, <1>7, <2>5 DEF Refreshing
    <3>2. r # 0
      BY <1>2, <1>8 DEF r
    <3>3. QED BY <1>2, <1>3, <1>4, <1>9, <2>1, <2>5, <3>1, <3>2
  <2>6. \A q \in Proc : Asking(q)' /\ proc'[q].refresh # 0 /\ proc'[q].refresh = token.refresh =>
           proc'[q].session = session
    BY <1>4, <2>1 DEF Asking, IInv, FreshInv
  <2>7. QED BY <1>1, <2>2, <2>3, <2>4, <2>5, <2>6 DEF FreshInv
<1>14. StoreInv'
  BY <1>1, <1>4, <1>5 DEF IInv, StoreInv, StoredIsLive, StillLive, Saving
<1>15. ValidInv'
  <2>1. \A q \in Proc : proc'[q].pc = "answer" => q = p
    BY <1>4, <1>7 DEF Refreshing
  <2>2. token.refresh # 0 => token.refresh \in valid \cup gone \/ token.refresh = r
    <3>1. \A q \in Proc : proc[q].pc # "answer"
      BY <1>7 DEF Refreshing
    <3>2. QED BY <3>1 DEF IInv, ValidInv, RefreshIsValid
  <2>3. RefreshIsValid'
    BY <1>1, <1>3, <1>4, <1>9, <2>2 DEF RefreshIsValid
  <2>4. QED BY <1>1, <1>4, <1>9, <2>1, <2>3 DEF ValidInv
<1>16. ErrorInv'
  <2>1. \A i \in 0..Len(grants) : i \notin valid => i \notin valid'
    BY <1>3, <1>8
  <2>2. Earned(token)' /\ Earned(stored)'
    BY <1>1, <1>8, <2>1 DEF IInv, ErrorInv, Earned
  <2>3. \A q \in Proc : proc'[q].pc \in {"save", "write"} => q # p /\ Earned(proc[q].copy)
    BY <1>4 DEF IInv, ErrorInv
  <2>4. \A q \in Proc : proc'[q].pc \in {"save", "write"} => Earned(proc[q].copy)'
    BY <1>4, <1>8, <2>1, <2>3 DEF Earned
  <2>5. QED BY <1>1, <1>4, <1>6, <2>2, <2>4 DEF IInv, ErrorInv, Earned, Refreshing
<1>17. QED BY <1>10, <1>11, <1>12, <1>13, <1>14, <1>15, <1>16 DEF IInv

LEMMA ExchangeInv == ASSUME IInv, NEW p \in Proc, Exchange(p) PROVE IInv'
<1> DEFINE r == proc[p].refresh
           l(a, k) == [Goto(p, "answer") EXCEPT !.answer = a, !.new = k]
<1>1. proc[p].pc = "send" /\ UNCHANGED <<client, stored, locks>>
  BY DEF Exchange
<1>2. CASE r \in valid /\ Issue(Owner(r), {r}) /\ gone' = gone /\ Step(p, l("granted", Len(grants) + 1))
  BY <1>1, <1>2, ExchangedInv
<1>3. CASE /\ r \in valid /\ Issue(Owner(r), {r}) /\ gone' = gone \cup {r, Len(grants) + 1}
           /\ Step(p, l("failed", 0))
  BY <1>1, <1>3, ExchangedInv
<1>4. CASE r \notin valid /\ Step(p, l("refused", 0)) /\ UNCHANGED gog
  BY <1>1, <1>4, UnissuedInv
<1>5. CASE Step(p, l("failed", 0)) /\ UNCHANGED gog
  BY <1>1, <1>5, UnissuedInv
<1>6. QED BY <1>2, <1>3, <1>4, <1>5 DEF Exchange

-----------------------------------------------------------------------------
(* The answer reaches the session, and the store.                          *)

\* A request that goes on without having changed anything.
LEMMA BlankInv ==
    ASSUME IInv, NEW p \in Proc, NEW l, p # LogOut, l \in Local, Blank(l), Step(p, l),
           l.pc \in {"idle", "done", "annotate", "use"},
           proc[p].pc # "write", proc[p].pc = "save" => ~StillLive(p),
           proc[p].pc = "answer" /\ proc[p].refresh = token.refresh /\ token.refresh # 0 =>
               token.refresh \in valid \cup gone,
           refreshing' \in {refreshing, Unlocked(p, refreshing)},
           UNCHANGED <<client, stored, persist, gog>>
    PROVE  IInv'
<1>1. QuietStep(p, l)
  BY BlankFits DEF QuietStep, client, IInv, TypeOK
<1>2. QED BY <1>1, QuietInv

\* A goroutine that is about to store what the session is, with a copy of it.
LEMMA CopyFits ==
    ASSUME NEW m \in Local, NEW c \in Token, m.pc = "save"
    PROVE  LET l == [m EXCEPT !.copy = c]
           IN  /\ l \in Local /\ l.pc = "save" /\ l.copy = c /\ l.refresh = m.refresh
               /\ l.new = m.new /\ l.session = m.session
BY DEF Local

LEMMA ApplyAnswerInv == ASSUME IInv, NEW p \in Proc, ApplyAnswer(p) PROVE IInv'
<1>1. proc[p].pc = "answer" /\ UNCHANGED <<session, gameToken, stored, persist, gog>>
  BY DEF ApplyAnswer
<1>2. p # LogOut /\ LogOut \in Proc
  BY <1>1, LogOutApart, ConstantFacts
<1>3. proc[p] \in Local
  BY DEF IInv, TypeOK
<1>4. CASE /\ IsCurrent(p) /\ proc[p].answer = "failed" /\ Step(p, Failed(p)) /\ token' = token
           /\ refreshing' = Unlocked(p, refreshing)
  <2>1. proc[p].refresh = token.refresh /\ token.refresh # 0 => token.refresh \in valid \cup gone
    BY <1>1, <1>4 DEF IInv, ValidInv
  <2>2. QED BY <1>1, <1>2, <1>4, <2>1, FailedType, BlankInv DEF client
<1>5. CASE /\ ~IsCurrent(p)
           /\ Step(p, IF token.access # "none" THEN Afresh(p, "use") ELSE Failed(p))
           /\ refreshing' = Unlocked(p, refreshing) /\ token' = token
  <2> DEFINE l == IF token.access # "none" THEN Afresh(p, "use") ELSE Failed(p)
  <2>1. "use" \in Pc
    BY DEF Pc
  <2>2. l \in Local /\ Blank(l) /\ l.pc \in {"idle", "done", "annotate", "use"}
    BY <2>1, AfreshType, FailedType DEF IInv
  <2>3. Step(p, l)
    BY <1>5
  <2> HIDE DEF l
  <2>4. token.refresh # proc[p].refresh
    BY <1>5 DEF IsCurrent
  <2>5. QED BY <1>1, <1>2, <1>5, <2>2, <2>3, <2>4, BlankInv DEF client
<1>6. CASE /\ IsCurrent(p) /\ proc[p].answer # "failed" /\ token' = Refreshed(p)
           /\ Step(p, [Goto(p, "save") EXCEPT !.copy = token']) /\ refreshing' = refreshing
  <2> DEFINE m == Goto(p, "save")
  <2>1. "save" \in Pc
    BY DEF Pc
  <2>2. m \in Local /\ m.pc = "save" /\ m.refresh = proc[p].refresh /\ m.new = proc[p].new
        /\ m.session = proc[p].session
    BY <1>3, <2>1 DEF Goto, Local
  <2>3. token \in Token /\ token.refresh = proc[p].refresh
    BY <1>6 DEF IInv, TypeOK, IsCurrent
  <2>4. token' \in Token
    BY <1>3, <1>6, <2>3 DEF Refreshed, Token, Local
  <2> HIDE DEF m
  <2>5. (\A q \in Proc : q # p => proc'[q] = proc[q]) /\ proc' \in [Proc -> Local]
        /\ proc'[p].pc = "save" /\ proc'[p].copy = token' /\ proc'[p].refresh = proc[p].refresh
        /\ proc'[p].new = proc[p].new /\ proc'[p].session = proc[p].session
    <3> DEFINE l == [m EXCEPT !.copy = token']
    <3>1. /\ l \in Local /\ l.pc = "save" /\ l.copy = token' /\ l.refresh = m.refresh
          /\ l.new = m.new /\ l.session = m.session
      BY <2>2, <2>4, CopyFits
    <3>2. Step(p, l)
      BY <1>6 DEF m
    <3> HIDE DEF l
    <3>3. QED BY <2>2, <3>1, <3>2, Stepped DEF IInv
  <2>6. refreshing = p /\ ~token.error
    BY <1>1 DEF IInv, LockInv, ErrorInv, Refreshing
  <2>7. \A q \in Proc : q # p => ~Refreshing(q)
    BY <2>6 DEF IInv, LockInv
  <2>8. session' = session /\ gameToken' = gameToken /\ stored' = stored /\ persist' = persist
        /\ refreshing' = refreshing /\ grants' = grants /\ valid' = valid /\ gone' = gone
    BY <1>1, <1>6 DEF gog
  <2>9. TypeOK'
    BY <2>4, <2>5, <2>8 DEF IInv, TypeOK
  <2>10. LockInv'
    BY <1>2, <2>5, <2>8 DEF IInv, LockInv, Refreshing
  <2>11. CASE proc[p].answer = "granted"
    <3>1. Pending(p) /\ Asking(p)
      BY <1>1, <2>11 DEF Pending, Asking
    <3>2. token'.refresh = proc[p].new /\ token'.error = FALSE
      BY <1>6, <2>3, <2>6, <2>11 DEF Refreshed, Token
    <3>3. proc[p].refresh # 0 /\ proc[p].session = session /\ proc[p].new # 0
          /\ proc[p].new \in valid \cup gone
      BY <1>1, <2>3, <2>11, <3>1 DEF IInv, FreshInv
    <3>4. IssuedInv'
      BY <2>5, <2>8, <3>2 DEF IInv, IssuedInv
    <3>5. FreshInv'
      <4>1. \A q \in Proc : Pending(q)' => q # p /\ Pending(q)
        BY <2>5 DEF Pending
      <4>2. \A q \in Proc : ~Asking(q)'
        BY <2>5, <2>7 DEF Asking, Refreshing
      <4>3. \A q \in Proc : Pending(q)' =>
              /\ proc'[q].new \notin {0, token'.refresh} /\ proc'[q].new \in valid' \cup gone'
              /\ \A o \in Proc \ {q} : Pending(o)' => proc'[o].new # proc'[q].new
        BY <2>5, <2>8, <3>1, <3>2, <4>1 DEF IInv, FreshInv
      <4>4. QED BY <4>2, <4>3 DEF FreshInv, Asking
    <3>6. StoreInv'
      <4>1. Saving(p)'
        BY <2>5, <2>8, <3>3 DEF Saving, StillLive
      <4>2. QED BY <4>1 DEF StoreInv, StoredIsLive, Saving
    <3>7. ValidInv'
      <4>1. \A q \in Proc : proc'[q].pc # "answer"
        BY <2>5, <2>7 DEF Refreshing
      <4>2. QED BY <2>8, <3>2, <3>3, <4>1 DEF ValidInv, RefreshIsValid
    <3>8. ErrorInv'
      BY <2>5, <2>7, <2>8, <3>2 DEF IInv, ErrorInv, Earned, Refreshing
    <3>9. QED BY <2>9, <2>10, <3>4, <3>5, <3>6, <3>7, <3>8 DEF IInv
  <2>12. CASE proc[p].answer = "refused"
    <3>1. token'.refresh = token.refresh
      BY <1>6, <2>3, <2>12 DEF Refreshed, Token
    <3>2. proc[p].refresh \notin valid /\ (token.refresh # 0 => token.refresh \in gone)
      BY <1>1, <2>3, <2>12 DEF IInv, ValidInv
    <3>3. IssuedInv'
      BY <2>5, <2>8, <3>1 DEF IInv, IssuedInv
    <3>4. FreshInv'
      <4>1. \A q \in Proc : Pending(q)' => q # p /\ Pending(q)
        BY <2>5 DEF Pending
      <4>2. \A q \in Proc : ~Asking(q)'
        BY <2>5, <2>7 DEF Asking, Refreshing
      <4>3. \A q \in Proc : Pending(q)' =>
              /\ proc'[q].new \notin {0, token'.refresh} /\ proc'[q].new \in valid' \cup gone'
              /\ \A o \in Proc \ {q} : Pending(o)' => proc'[o].new # proc'[q].new
        BY <2>5, <2>8, <3>1, <4>1 DEF IInv, FreshInv
      <4>4. QED BY <4>2, <4>3 DEF FreshInv, Asking
    <3>5. StoreInv'
      <4>1. \A q \in Proc : q # p => StillLive(q)' = StillLive(q) /\ proc'[q] = proc[q]
        BY <2>5, <2>8, <3>1 DEF StillLive
      <4>2. \A q \in Proc : Saving(q) => Saving(q)'
        BY <1>1, <2>5, <4>1 DEF Saving
      <4>3. QED BY <1>1, <1>2, <2>5, <2>8, <3>1, <4>1, <4>2 DEF IInv, StoreInv, StoredIsLive
    <3>6. ValidInv'
      <4>1. \A q \in Proc : proc'[q].pc # "answer"
        BY <2>5, <2>7 DEF Refreshing
      <4>2. QED BY <2>8, <3>1, <3>2, <4>1 DEF ValidInv, RefreshIsValid
    <3>7. ErrorInv'
      BY <2>3, <2>5, <2>7, <2>8, <3>1, <3>2 DEF IInv, ErrorInv, Earned, Refreshing
    <3>8. QED BY <2>9, <2>10, <3>3, <3>4, <3>5, <3>6, <3>7 DEF IInv
  <2>13. CASE proc[p].answer = "none"
    BY <1>1, <2>13 DEF IInv, ValidInv
  <2>14. QED BY <1>3, <1>6, <2>11, <2>12, <2>13 DEF Local
<1>7. QED BY <1>4, <1>5, <1>6 DEF ApplyAnswer

LEMMA LockStoreInv == ASSUME IInv, NEW p \in Proc, LockStore(p) PROVE IInv'
<1>1. proc[p].pc = "save" /\ persist = Free /\ UNCHANGED <<client, stored, gog>>
  BY DEF LockStore
<1>2. p # LogOut /\ LogOut \in Proc /\ Free \notin Proc
  BY <1>1, LogOutApart, ConstantFacts
<1>3. CASE ~StillLive(p)
  <2>1. persist' = persist /\ Step(p, Failed(p)) /\ refreshing' = Unlocked(p, refreshing)
    BY <1>3 DEF LockStore
  <2>2. QED BY <1>1, <1>2, <1>3, <2>1, FailedType, BlankInv
<1>4. CASE StillLive(p)
  <2> DEFINE l == Goto(p, "write")
  <2>1. persist' = p /\ Step(p, l) /\ refreshing' = refreshing
    BY <1>4 DEF LockStore
  <2>2. token' = token /\ session' = session /\ gameToken' = gameToken /\ stored' = stored
        /\ grants' = grants /\ valid' = valid /\ gone' = gone
    BY <1>1 DEF client, gog
  <2>3. l \in Local /\ l.pc = "write" /\ l.copy = proc[p].copy /\ l.session = proc[p].session
        /\ l.refresh <= Len(grants) /\ l.new <= Len(grants)
    <3>1. "write" \in Pc
      BY DEF Pc
    <3>2. proc[p] \in Local
      BY DEF IInv, TypeOK
    <3>3. l.copy = proc[p].copy /\ l.session = proc[p].session
      BY <3>2 DEF Goto, Local
    <3>4. QED BY <3>1, <3>3, GotoFits
  <2> HIDE DEF l
  <2>4. proc'[p] = l /\ (\A q \in Proc : q # p => proc'[q] = proc[q]) /\ proc' \in [Proc -> Local]
    BY <2>1, <2>3, Stepped DEF IInv
  <2>5. (\A q \in Proc : proc[q].pc # "write") /\ proc[LogOut].pc # "clear"
    BY <1>1, <1>2 DEF IInv, LockInv
  <2>6. TypeOK'
    BY <2>1, <2>2, <2>4 DEF IInv, TypeOK
  <2>7. LockInv'
    BY <1>2, <2>1, <2>2, <2>3, <2>4, <2>5 DEF IInv, LockInv, Refreshing
  <2>8. IssuedInv'
    BY <2>2, <2>3, <2>4 DEF IInv, IssuedInv
  <2>9. FreshInv'
    BY <2>2, <2>3, <2>4 DEF IInv, FreshInv, Asking, Pending
  <2>10. StoreInv'
    <3>1. StillLive(p)' /\ proc'[p].pc = "write"
      BY <1>4, <2>2, <2>3, <2>4 DEF StillLive
    <3>2. QED BY <1>2, <2>3, <2>4, <2>5, <3>1 DEF StoreInv, StoredIsLive
  <2>11. ValidInv'
    BY <1>1, <2>2, <2>3, <2>4 DEF IInv, ValidInv, RefreshIsValid
  <2>12. ErrorInv'
    BY <1>1, <2>2, <2>3, <2>4 DEF IInv, ErrorInv, Earned, Refreshing
  <2>13. QED BY <2>6, <2>7, <2>8, <2>9, <2>10, <2>11, <2>12 DEF IInv
<1>5. QED BY <1>3, <1>4

LEMMA WriteStoreInv == ASSUME IInv, NEW p \in Proc, WriteStore(p) PROVE IInv'
<1> DEFINE l == AfterSave(p)
<1>1. proc[p].pc = "write" /\ Step(p, l) /\ stored' = proc[p].copy /\ persist' = Free
      /\ refreshing' = Unlocked(p, refreshing)
      /\ token' = token /\ session' = session /\ gameToken' = gameToken
      /\ grants' = grants /\ valid' = valid /\ gone' = gone
  BY DEF WriteStore, client, gog
<1>2. p # LogOut /\ LogOut \in Proc /\ Free \notin Proc
  BY <1>1, LogOutApart, ConstantFacts
<1>3. l \in Local /\ Blank(l) /\ l.pc \in {"ask", "idle", "done", "annotate", "use"}
  <2>1. CASE proc[p].part = "install"
    <3>1. l = [Idle EXCEPT !.pc = "ask", !.part = "fetch"]
      BY <2>1 DEF AfterSave
    <3> HIDE DEF l
    <3>2. QED BY <3>1, ConstantFacts DEF LoggedOut, Token, Idle, Local, Pc, Blank
  <2>2. CASE proc[p].part # "install"
    <3>1. "use" \in Pc
      BY DEF Pc
    <3>2. l \in {Done, Failed(p), Afresh(p, "use")}
      BY <2>2 DEF AfterSave
    <3>3. QED BY <3>1, <3>2, IdleTypes, FailedType, AfreshType DEF IInv
  <2>3. QED BY <2>1, <2>2
<1>4. l.refresh <= Len(grants) /\ l.new <= Len(grants) /\ l.copy.refresh <= Len(grants)
  BY <1>3, BlankFits DEF IInv
<1> HIDE DEF l
<1>5. proc'[p] = l /\ (\A q \in Proc : q # p => proc'[q] = proc[q]) /\ proc' \in [Proc -> Local]
  BY <1>1, <1>3, Stepped DEF IInv
<1>6. persist = p /\ proc[LogOut].pc # "clear" /\ (\A q \in Proc : q # p => proc[q].pc # "write")
  BY <1>1, <1>2 DEF IInv, LockInv
<1>7. refreshing' \in {refreshing, Free} /\ (\A q \in Proc : q # p /\ refreshing = q => refreshing' = q)
  BY <1>1 DEF Unlocked
<1>8. proc[p].copy \in Token
  BY DEF IInv, TypeOK, Local
<1>9. TypeOK'
  BY <1>1, <1>5, <1>7, <1>8 DEF IInv, TypeOK
<1>10. LockInv'
  BY <1>1, <1>2, <1>3, <1>5, <1>6, <1>7 DEF IInv, LockInv, Refreshing
<1>11. IssuedInv'
  BY <1>1, <1>4, <1>5 DEF IInv, IssuedInv
<1>12. FreshInv'
  BY <1>1, <1>3, <1>5 DEF IInv, FreshInv, Asking, Pending
<1>13. StoreInv'
  <2>1. \A q \in Proc : Saving(q) => Saving(q)'
    BY <1>1, <1>5 DEF Saving, StillLive
  <2>2. StillLive(p) \/ \E q \in Proc : Saving(q)
    BY <1>1 DEF IInv, StoreInv
  <2>3. StoredIsLive'
    <3>1. CASE StillLive(p)
      BY <1>1, <3>1 DEF StillLive, StoredIsLive
    <3>2. CASE \E q \in Proc : Saving(q)
      BY <2>1, <3>2 DEF Saving, StoredIsLive
    <3>3. QED BY <2>2, <3>1, <3>2
  <2>4. \A q \in Proc : proc'[q].pc # "write"
    BY <1>3, <1>5, <1>6
  <2>5. proc'[LogOut].pc # "clear"
    BY <1>2, <1>5, <1>6
  <2>6. QED BY <2>3, <2>4, <2>5 DEF StoreInv
<1>14. ValidInv'
  BY <1>1, <1>3, <1>5 DEF IInv, ValidInv, RefreshIsValid
<1>15. ErrorInv'
  BY <1>1, <1>3, <1>5 DEF IInv, ErrorInv, Earned, Refreshing
<1>16. QED BY <1>9, <1>10, <1>11, <1>12, <1>13, <1>14, <1>15 DEF IInv

-----------------------------------------------------------------------------
(* Logins and logouts.                                                     *)

LEMMA ExchangeCodeInv == ASSUME IInv, NEW p \in Proc, ExchangeCode(p) PROVE IInv'
<1> DEFINE n == Len(grants) + 1
<1>1. proc[p].pc = "code" /\ token' = token /\ session' = session /\ gameToken' = gameToken
      /\ stored' = stored /\ persist' = persist /\ refreshing' = refreshing /\ gone' = gone
  BY DEF ExchangeCode, client, locks
<1>2. p # LogOut /\ LogOut \in Proc /\ p \in SignIns
  BY <1>1, LogOutApart, ConstantFacts DEF IInv, LockInv
<1>3. CASE Step(p, Done) /\ UNCHANGED <<grants, valid>>
  BY <1>1, <1>2, <1>3, IdleTypes, BlankInv DEF client, gog
<1>4. CASE Issue(p, {}) /\ Step(p, [Goto(p, "install") EXCEPT !.new = n])
  <2>1. /\ grants' \in Seq(Account) /\ Len(grants') = n /\ n <= MaxIssued /\ n \in 1..MaxIssued
        /\ \A i \in 1..Len(grants) : grants'[i] = grants[i]
        /\ valid' = valid \cup {n} /\ valid' \subseteq 1..n
    <3>1. p \in Account
      BY <1>2, ConstantFacts
    <3>2. QED BY <1>4, <3>1, Issued
  <2>2. /\ Len(grants) \in Nat /\ n \notin 0..Len(grants) /\ n # 0
        /\ token.refresh \in 0..Len(grants) /\ stored.refresh \in 0..Len(grants)
        /\ \A q \in Proc : /\ proc[q].refresh \in 0..Len(grants) /\ proc[q].new \in 0..Len(grants)
                           /\ proc[q].copy.refresh \in 0..Len(grants)
    BY Known
  <2> DEFINE m == Goto(p, "install")
             l == [m EXCEPT !.new = n]
  <2>3. m \in Local /\ m.pc = "install" /\ m.refresh = proc[p].refresh /\ m.copy = proc[p].copy
    <3>1. proc[p] \in Local /\ "install" \in Pc
      BY DEF IInv, TypeOK, Pc
    <3>2. QED BY <3>1 DEF Goto, Local
  <2>4. Step(p, l)
    BY <1>4
  <2> HIDE DEF m, n
  <2>5. n \in 0..MaxIssued
    BY <2>1, ConstantFacts
  <2>6. l \in Local /\ l.pc = "install" /\ l.new = n /\ l.refresh = proc[p].refresh
        /\ l.copy = proc[p].copy
    BY <2>3, <2>5 DEF Local
  <2> HIDE DEF l
  <2>7. proc'[p] = l /\ (\A q \in Proc : q # p => proc'[q] = proc[q]) /\ proc' \in [Proc -> Local]
    BY <2>4, <2>6, Stepped DEF IInv
  <2>8. \A i \in 0..Len(grants) : i <= n /\ (i \notin valid => i \notin valid')
    <3>1. \A i \in 0..Len(grants) : i <= n
      BY <2>2 DEF n
    <3>2. QED BY <2>1, <2>2, <3>1
  <2>9. TypeOK'
    <3>1. gone \subseteq 1..n
      BY <2>2 DEF IInv, TypeOK, n
    <3>2. QED BY <1>1, <2>1, <2>7, <3>1 DEF IInv, TypeOK
  <2>10. LockInv'
    BY <1>1, <1>2, <2>6, <2>7 DEF IInv, LockInv, Refreshing
  <2>11. IssuedInv'
    <3>1. n <= n
      BY <2>5
    <3>2. QED BY <1>1, <2>1, <2>2, <2>6, <2>7, <2>8, <3>1 DEF IssuedInv
  <2>12. FreshInv'
    <3>1. \A q \in Proc : Asking(q)' <=> q # p /\ Asking(q)
      BY <1>1, <2>6, <2>7 DEF Asking
    <3>2. \A q \in Proc : q # p => (Pending(q)' <=> Pending(q))
      BY <2>7 DEF Pending
    <3>3. ASSUME NEW q \in Proc, Pending(q)'
          PROVE  /\ proc'[q].new \notin {0, token.refresh} /\ proc'[q].new \in valid' \cup gone
                 /\ \A o \in Proc : Asking(o)' => proc'[o].refresh # proc'[q].new
                 /\ \A o \in Proc \ {q} : Pending(o)' => proc'[o].new # proc'[q].new
      <4>1. CASE q = p
        BY <2>1, <2>2, <2>6, <2>7, <3>1, <4>1
      <4>2. CASE q # p
        <5>1. Pending(q)
          BY <3>2, <3>3, <4>2
        <5>2. proc'[q].new = proc[q].new /\ proc[q].new # n
          BY <2>2, <2>7, <4>2
        <5>3. \A o \in Proc \ {q} : Pending(o)' => proc'[o].new # proc'[q].new
          BY <2>6, <2>7, <3>2, <5>1, <5>2 DEF IInv, FreshInv
        <5>4. \A o \in Proc : Asking(o)' => proc'[o].refresh # proc'[q].new
          BY <2>7, <3>1, <5>1, <5>2 DEF IInv, FreshInv
        <5>5. QED BY <2>1, <5>1, <5>2, <5>3, <5>4 DEF IInv, FreshInv
      <4>3. QED BY <4>1, <4>2
    <3>4. ASSUME NEW q \in Proc, proc'[q].pc = "answer", proc'[q].answer = "granted"
          PROVE  proc'[q].refresh # 0 /\ grants'[proc'[q].new] = grants'[proc'[q].refresh]
      <4>1. q # p /\ proc'[q] = proc[q]
        BY <2>6, <2>7, <3>4
      <4>2. Pending(q) /\ proc[q].new # 0 /\ proc[q].refresh # 0
            /\ grants[proc[q].new] = grants[proc[q].refresh]
        BY <3>4, <4>1 DEF IInv, FreshInv, Pending
      <4>3. proc[q].new \in 1..Len(grants) /\ proc[q].refresh \in 1..Len(grants)
        BY <2>2, <4>2
      <4>4. QED BY <2>1, <4>1, <4>2, <4>3
    <3>5. \A q \in Proc : Asking(q)' /\ proc'[q].refresh # 0 /\ proc'[q].refresh = token.refresh =>
             proc'[q].session = session
      BY <2>7, <3>1 DEF IInv, FreshInv
    <3>6. QED BY <1>1, <3>3, <3>4, <3>5 DEF FreshInv
  <2>13. StoreInv'
    BY <1>1, <1>2, <2>6, <2>7 DEF IInv, StoreInv, StoredIsLive, StillLive, Saving
  <2>14. ValidInv'
    BY <1>1, <2>1, <2>2, <2>6, <2>7, <2>8 DEF IInv, ValidInv, RefreshIsValid
  <2>15. ErrorInv'
    <3>1. Earned(token)' /\ Earned(stored)'
      BY <1>1, <2>2, <2>8 DEF IInv, ErrorInv, Earned
    <3>2. \A q \in Proc : proc'[q].pc \in {"save", "write"} => Earned(proc[q].copy)'
      BY <2>2, <2>6, <2>7, <2>8 DEF IInv, ErrorInv, Earned
    <3>3. \A q \in Proc : Refreshing(q)' => ~token'.error
      BY <1>1, <2>6, <2>7 DEF IInv, ErrorInv, Refreshing
    <3>4. QED BY <3>1, <3>2, <3>3 DEF ErrorInv, Earned
  <2>16. QED BY <2>9, <2>10, <2>11, <2>12, <2>13, <2>14, <2>15 DEF IInv
<1>5. QED BY <1>3, <1>4 DEF ExchangeCode

LEMMA InstallSessionInv == ASSUME IInv, NEW p \in Proc, InstallSession(p) PROVE IInv'
<1> DEFINE t == Answered(proc[p].new)
           l == [Idle EXCEPT !.pc = "save", !.part = "install", !.copy = t, !.session = session']
<1>1. proc[p].pc = "install" /\ token' = t /\ session' = session + 1 /\ gameToken' = Nobody
      /\ Step(p, l) /\ stored' = stored /\ persist' = persist /\ refreshing' = refreshing
      /\ grants' = grants /\ valid' = valid /\ gone' = gone
  BY DEF InstallSession, locks, gog
<1>2. p # LogOut /\ LogOut \in Proc /\ Nobody \in Account
  BY <1>1, LogOutApart, ConstantFacts
<1>3. t \in Token /\ t.refresh = proc[p].new /\ t.error = FALSE
  BY DEF Answered, Token, IInv, TypeOK, Local
<1> HIDE DEF t
<1>4. session' \in Nat
  BY <1>1 DEF IInv, TypeOK
<1>5. l \in Local /\ l.pc = "save" /\ l.copy = t /\ l.session = session' /\ l.refresh = 0 /\ l.new = 0
  <2>1. "save" \in Pc
    BY DEF Pc
  <2>2. QED BY <1>3, <1>4, <2>1, ConstantFacts DEF Idle, Local
<1> HIDE DEF l
<1>6. proc'[p] = l /\ (\A q \in Proc : q # p => proc'[q] = proc[q]) /\ proc' \in [Proc -> Local]
  BY <1>1, <1>5, Stepped DEF IInv
<1>7. Pending(p)
  BY <1>1 DEF Pending
<1>8. Len(grants) \in Nat /\ 0 <= Len(grants) /\ t.refresh <= Len(grants)
  BY <1>3, Known DEF IInv, IssuedInv
<1>9. TypeOK'
  BY <1>1, <1>2, <1>3, <1>4, <1>6 DEF IInv, TypeOK
<1>10. LockInv'
  BY <1>1, <1>2, <1>5, <1>6 DEF IInv, LockInv, Refreshing
<1>11. IssuedInv'
  BY <1>1, <1>5, <1>6, <1>8 DEF IInv, IssuedInv
<1>12. FreshInv'
  <2>1. \A q \in Proc : Asking(q)' => q # p /\ Asking(q)
    BY <1>5, <1>6 DEF Asking
  <2>2. \A q \in Proc : Pending(q)' => q # p /\ Pending(q)
    BY <1>5, <1>6 DEF Pending
  <2>3. \A q \in Proc : Asking(q) => proc[q].refresh # t.refresh
    BY <1>3, <1>7 DEF IInv, FreshInv
  <2>4. ASSUME NEW q \in Proc, Pending(q)'
        PROVE  /\ proc'[q].new \notin {0, t.refresh} /\ proc'[q].new \in valid \cup gone
               /\ \A o \in Proc : Asking(o)' => proc'[o].refresh # proc'[q].new
               /\ \A o \in Proc \ {q} : Pending(o)' => proc'[o].new # proc'[q].new
    BY <1>3, <1>6, <1>7, <2>1, <2>2, <2>4 DEF IInv, FreshInv
  <2>5. \A q \in Proc : proc'[q].pc = "answer" /\ proc'[q].answer = "granted" =>
           proc'[q].refresh # 0 /\ grants[proc'[q].new] = grants[proc'[q].refresh]
    BY <1>5, <1>6 DEF IInv, FreshInv
  <2>6. \A q \in Proc : Asking(q)' => proc'[q].refresh # token'.refresh
    BY <1>1, <1>6, <2>1, <2>3
  <2>7. QED BY <1>1, <2>4, <2>5, <2>6 DEF FreshInv
<1>13. StoreInv'
  <2>1. Saving(p)'
    BY <1>1, <1>5, <1>6 DEF Saving, StillLive
  <2>2. QED BY <2>1 DEF StoreInv, StoredIsLive, Saving
<1>14. ValidInv'
  <2>1. t.refresh \in valid \cup gone
    BY <1>3, <1>7 DEF IInv, FreshInv
  <2>2. \A q \in Proc : proc'[q].pc = "answer" => proc'[q] = proc[q] /\ proc[q].refresh # t.refresh
    BY <1>3, <1>5, <1>6, <1>7 DEF IInv, FreshInv, Asking
  <2>3. QED BY <1>1, <2>1, <2>2 DEF IInv, ValidInv, RefreshIsValid
<1>15. ErrorInv'
  BY <1>1, <1>3, <1>5, <1>6 DEF IInv, ErrorInv, Earned, Refreshing
<1>16. QED BY <1>9, <1>10, <1>11, <1>12, <1>13, <1>14, <1>15 DEF IInv

LEMMA AnnotateInv == ASSUME IInv, NEW p \in Proc, Annotate(p) PROVE IInv'
<1>1. proc[p].pc = "annotate" /\ token' = token /\ session' = session /\ gameToken' = gameToken
      /\ stored' = stored /\ persist' = persist /\ refreshing' = refreshing
      /\ grants' = grants /\ valid' = valid /\ gone' = gone
  BY DEF Annotate, Annotated, locks, gog
<1>2. p # LogOut /\ LogOut \in Proc
  BY <1>1, LogOutApart, ConstantFacts
<1>3. CASE token.refresh = 0
  <2>1. Step(p, Done)
    BY <1>3 DEF Annotate
  <2>2. QED BY <1>1, <1>2, <2>1, IdleTypes, BlankInv DEF client, gog
<1>4. CASE token.refresh # 0
  <2> DEFINE l == [Idle EXCEPT !.pc = "save", !.part = "annotate", !.copy = token, !.session = session]
  <2>1. Step(p, l)
    BY <1>1, <1>4 DEF Annotate
  <2>2. l \in Local /\ l.pc = "save" /\ l.copy = token /\ l.session = session /\ l.refresh = 0 /\ l.new = 0
    <3>1. token \in Token /\ session \in Nat /\ "save" \in Pc
      BY DEF IInv, TypeOK, Pc
    <3>2. QED BY <3>1, ConstantFacts DEF Idle, Local
  <2> HIDE DEF l
  <2>3. proc'[p] = l /\ (\A q \in Proc : q # p => proc'[q] = proc[q]) /\ proc' \in [Proc -> Local]
    BY <2>1, <2>2, Stepped DEF IInv
  <2>4. TypeOK'
    BY <1>1, <2>3 DEF IInv, TypeOK
  <2>5. LockInv'
    BY <1>1, <1>2, <2>2, <2>3 DEF IInv, LockInv, Refreshing
  <2>6. IssuedInv'
    <3>1. 0 <= Len(grants)
      BY Known
    <3>2. QED BY <1>1, <2>2, <2>3, <3>1 DEF IInv, IssuedInv
  <2>7. FreshInv'
    BY <1>1, <2>2, <2>3 DEF IInv, FreshInv, Asking, Pending
  <2>8. StoreInv'
    <3>1. Saving(p)'
      BY <1>1, <2>2, <2>3 DEF Saving, StillLive
    <3>2. QED BY <3>1 DEF StoreInv, StoredIsLive, Saving
  <2>9. ValidInv'
    BY <1>1, <2>2, <2>3 DEF IInv, ValidInv, RefreshIsValid
  <2>10. ErrorInv'
    BY <1>1, <2>2, <2>3 DEF IInv, ErrorInv, Earned, Refreshing
  <2>11. QED BY <2>4, <2>5, <2>6, <2>7, <2>8, <2>9, <2>10 DEF IInv
<1>5. QED BY <1>3, <1>4

LEMMA ForgetSessionInv == ASSUME IInv, ForgetSession PROVE IInv'
<1> DEFINE l == Goto(LogOut, "clear")
<1>1. persist = Free /\ persist' = LogOut /\ token' = LoggedOut /\ session' = session + 1
      /\ gameToken' = Nobody /\ Step(LogOut, l) /\ stored' = stored /\ refreshing' = refreshing
      /\ grants' = grants /\ valid' = valid /\ gone' = gone
  BY DEF ForgetSession, MayForget, gog
<1>2. LogOut \in Proc /\ Free \notin Proc /\ Nobody \in Account /\ "clear" \in Pc
  BY ConstantFacts DEF Pc
<1>3. l \in Local /\ l.pc = "clear" /\ l.refresh <= Len(grants) /\ l.new <= Len(grants)
      /\ l.copy.refresh <= Len(grants)
  BY <1>2, GotoFits
<1> HIDE DEF l
<1>4. proc'[LogOut] = l /\ (\A q \in Proc : q # LogOut => proc'[q] = proc[q]) /\ proc' \in [Proc -> Local]
  BY <1>1, <1>2, <1>3, Stepped DEF IInv
<1>5. token'.refresh = 0 /\ token'.error = FALSE /\ token' \in Token
  BY <1>1, IdleTypes DEF LoggedOut
<1>6. \A q \in Proc : proc[q].pc # "write"
  BY <1>1, <1>2 DEF IInv, LockInv
<1>7. TypeOK'
  BY <1>1, <1>2, <1>4, <1>5 DEF IInv, TypeOK
<1>8. LockInv'
  BY <1>1, <1>2, <1>3, <1>4, <1>6 DEF IInv, LockInv, Refreshing
<1>9. IssuedInv'
  <2>1. 0 <= Len(grants)
    BY Known
  <2>2. QED BY <1>1, <1>3, <1>4, <1>5, <2>1 DEF IInv, IssuedInv
<1>10. FreshInv'
  BY <1>1, <1>3, <1>4, <1>5 DEF IInv, FreshInv, Asking, Pending
<1>11. StoreInv'
  BY <1>2, <1>3, <1>4, <1>5, <1>6 DEF StoreInv, StoredIsLive
<1>12. ValidInv'
  BY <1>1, <1>3, <1>4, <1>5 DEF IInv, ValidInv, RefreshIsValid
<1>13. ErrorInv'
  BY <1>1, <1>3, <1>4, <1>5 DEF IInv, ErrorInv, Earned, Refreshing
<1>14. QED BY <1>7, <1>8, <1>9, <1>10, <1>11, <1>12, <1>13 DEF IInv

LEMMA ClearStoreInv == ASSUME IInv, ClearStore PROVE IInv'
<1>1. proc[LogOut].pc = "clear" /\ persist' = Free
      /\ token' = token /\ session' = session /\ gameToken' = gameToken /\ refreshing' = refreshing
      /\ grants' = grants /\ valid' = valid /\ gone' = gone
  BY DEF ClearStore, client, gog
<1>2. LogOut \in Proc /\ LogOut \notin SignIns /\ Free \notin Proc
  BY ConstantFacts
<1>3. PICK l \in Local :
        /\ Step(LogOut, l) /\ l.pc \in {"idle", "failed"}
        /\ stored' = LoggedOut \/ (stored' = stored /\ l.pc = "failed")
        /\ l.refresh <= Len(grants) /\ l.new <= Len(grants) /\ l.copy.refresh <= Len(grants)
  <2>1. CASE stored' = LoggedOut /\ Step(LogOut, Idle)
    BY <2>1, IdleTypes, BlankFits DEF IInv
  <2>2. CASE stored' = stored /\ Step(LogOut, Goto(LogOut, "failed"))
    <3>1. "failed" \in Pc
      BY DEF Pc
    <3>2. QED BY <1>2, <2>2, <3>1, GotoFits
  <2>3. QED BY <2>1, <2>2 DEF ClearStore
<1>4. proc'[LogOut] = l /\ (\A q \in Proc : q # LogOut => proc'[q] = proc[q]) /\ proc' \in [Proc -> Local]
  BY <1>2, <1>3, Stepped DEF IInv
<1>5. stored' \in Token /\ stored'.refresh \in {0, stored.refresh} /\ (stored' = LoggedOut => stored'.refresh = 0)
  <2>1. LoggedOut \in Token /\ LoggedOut.refresh = 0 /\ stored \in Token
    BY IdleTypes DEF LoggedOut, IInv, TypeOK
  <2>2. QED BY <1>3, <2>1
<1>6. persist = LogOut /\ \A q \in Proc : proc[q].pc # "write"
  BY <1>1, <1>2 DEF IInv, LockInv
<1>7. TypeOK'
  BY <1>1, <1>4, <1>5 DEF IInv, TypeOK
<1>8. LockInv'
  BY <1>1, <1>2, <1>3, <1>4, <1>6 DEF IInv, LockInv, Refreshing
<1>9. IssuedInv'
  <2>1. 0 <= Len(grants)
    BY Known
  <2>2. QED BY <1>1, <1>3, <1>4, <1>5, <2>1 DEF IInv, IssuedInv
<1>10. FreshInv'
  BY <1>1, <1>3, <1>4 DEF IInv, FreshInv, Asking, Pending
<1>11. StoreInv'
  <2>1. \A q \in Proc : Saving(q) => Saving(q)'
    BY <1>1, <1>4 DEF Saving, StillLive
  <2>2. token.refresh = 0 \/ \E q \in Proc : Saving(q)
    BY <1>1 DEF IInv, StoreInv
  <2>3. StoredIsLive'
    <3>1. CASE token.refresh = 0
      BY <1>1, <1>3, <1>4, <1>5, <3>1 DEF StoredIsLive
    <3>2. CASE \E q \in Proc : Saving(q)
      BY <2>1, <3>2 DEF Saving, StoredIsLive
    <3>3. QED BY <2>2, <3>1, <3>2
  <2>4. (\A q \in Proc : proc'[q].pc # "write") /\ proc'[LogOut].pc # "clear"
    BY <1>2, <1>3, <1>4, <1>6
  <2>5. QED BY <2>3, <2>4 DEF StoreInv
<1>12. ValidInv'
  BY <1>1, <1>3, <1>4 DEF IInv, ValidInv, RefreshIsValid
<1>13. ErrorInv'
  <2>1. Earned(stored)'
    <3>1. CASE stored' = LoggedOut
      BY <1>5, <3>1 DEF Earned
    <3>2. CASE stored' = stored
      BY <1>1, <3>2 DEF IInv, ErrorInv, Earned
    <3>3. QED BY <1>3, <3>1, <3>2
  <2>2. QED BY <1>1, <1>3, <1>4, <2>1 DEF IInv, ErrorInv, Earned, Refreshing
<1>14. QED BY <1>7, <1>8, <1>9, <1>10, <1>11, <1>12, <1>13 DEF IInv

-----------------------------------------------------------------------------
(* Time, GOG, and the process.                                             *)

LEMMA ExpireInv == ASSUME IInv, Expire PROVE IInv'
<1>1. token' = [token EXCEPT !.access = "expired"]
      /\ session' = session /\ gameToken' = gameToken /\ stored' = stored /\ persist' = persist
      /\ refreshing' = refreshing /\ proc' = proc /\ grants' = grants /\ valid' = valid /\ gone' = gone
  BY DEF Expire, locks, gog
<1>2. token' \in Token /\ token'.refresh = token.refresh /\ token'.error = token.error
  BY <1>1 DEF IInv, TypeOK, Token
<1>3. TypeOK'
  BY <1>1, <1>2 DEF IInv, TypeOK
<1>4. LockInv'
  BY <1>1 DEF IInv, LockInv, Refreshing
<1>5. IssuedInv'
  BY <1>1, <1>2 DEF IInv, IssuedInv
<1>6. FreshInv'
  BY <1>1, <1>2 DEF IInv, FreshInv, Asking, Pending
<1>7. StoreInv'
  BY <1>1, <1>2 DEF IInv, StoreInv, StoredIsLive, StillLive, Saving
<1>8. ValidInv'
  BY <1>1, <1>2 DEF IInv, ValidInv, RefreshIsValid
<1>9. ErrorInv'
  BY <1>1, <1>2 DEF IInv, ErrorInv, Earned, Refreshing
<1>10. QED BY <1>3, <1>4, <1>5, <1>6, <1>7, <1>8, <1>9 DEF IInv

LEMMA RevokeInv == ASSUME IInv, Revoke PROVE IInv'
<1>1. token' = token /\ session' = session /\ gameToken' = gameToken /\ stored' = stored
      /\ persist' = persist /\ refreshing' = refreshing /\ proc' = proc /\ grants' = grants
      /\ gone' = gone \cup valid /\ valid' = {}
  BY DEF Revoke, client, locks
<1>2. TypeOK'
  BY <1>1 DEF IInv, TypeOK
<1>3. LockInv'
  BY <1>1 DEF IInv, LockInv, Refreshing
<1>4. IssuedInv'
  BY <1>1 DEF IInv, IssuedInv
<1>5. FreshInv'
  BY <1>1 DEF IInv, FreshInv, Asking, Pending
<1>6. StoreInv'
  BY <1>1 DEF IInv, StoreInv, StoredIsLive, StillLive, Saving
<1>7. ValidInv'
  BY <1>1 DEF IInv, ValidInv, RefreshIsValid
<1>8. ErrorInv'
  BY <1>1 DEF IInv, ErrorInv, Earned, Refreshing
<1>9. QED BY <1>2, <1>3, <1>4, <1>5, <1>6, <1>7, <1>8 DEF IInv

LEMMA RestartInv == ASSUME IInv, Restart PROVE IInv'
<1> DEFINE lost == LostAtRestart \ {0}
<1>1. token' = stored /\ session' = 0 /\ gameToken' = Nobody /\ persist' = Free /\ refreshing' = Free
      /\ stored' = stored /\ grants' = grants /\ valid' = valid /\ gone' = gone \cup lost
  BY DEF Restart
<1>2. proc' \in [Proc -> Local]
  BY IdleTypes DEF Restart
<1>3. \A q \in Proc : proc'[q] \in {Idle, Done}
  BY DEF Restart
<1>4. \A q \in Proc : Blank(proc'[q]) /\ proc'[q].pc \in {"idle", "done"}
  BY <1>3, IdleTypes
<1>5. LogOut \in Proc /\ Free \notin Proc /\ Nobody \in Account
  BY ConstantFacts
<1>6. lost \subseteq 1..Len(grants)
  <2>1. LostAtRestart \subseteq 0..Len(grants)
    BY Known DEF LostAtRestart
  <2>2. QED BY <2>1, Known
<1>7. TypeOK'
  BY <1>1, <1>2, <1>5, <1>6 DEF IInv, TypeOK
<1>8. LockInv'
  BY <1>4, <1>5 DEF LockInv, Refreshing
<1>9. IssuedInv'
  <2>1. 0 <= Len(grants)
    BY Known
  <2>2. QED BY <1>1, <1>4, <2>1 DEF IInv, IssuedInv, Blank, LoggedOut
<1>10. FreshInv'
  BY <1>4 DEF FreshInv, Asking, Pending
<1>11. StoreInv'
  BY <1>1, <1>4, <1>5 DEF StoreInv, StoredIsLive
<1>12. ValidInv'
  <2>1. ASSUME stored.refresh # 0
        PROVE  stored.refresh \in valid \cup gone \cup lost
    <3>1. CASE stored.refresh # token.refresh
      BY <2>1, <3>1 DEF LostAtRestart
    <3>2. CASE stored.refresh = token.refresh
      <4>1. CASE token.refresh \in valid \cup gone
        BY <3>2, <4>1
      <4>2. CASE \E q \in Proc : proc[q].pc = "answer" /\ proc[q].refresh = token.refresh
        BY <2>1, <3>2, <4>2 DEF LostAtRestart
      <4>3. QED BY <2>1, <3>2, <4>1, <4>2 DEF IInv, ValidInv, RefreshIsValid
    <3>3. QED BY <3>1, <3>2
  <2>2. QED BY <1>1, <1>4, <2>1 DEF ValidInv, RefreshIsValid
<1>13. ErrorInv'
  BY <1>1, <1>4 DEF IInv, ErrorInv, Earned, Refreshing
<1>14. QED BY <1>7, <1>8, <1>9, <1>10, <1>11, <1>12, <1>13 DEF IInv

-----------------------------------------------------------------------------
LEMMA StutterInv == ASSUME IInv, UNCHANGED vars PROVE IInv'
BY DEF vars, IInv, TypeOK, LockInv, IssuedInv, FreshInv, StoreInv, ValidInv, ErrorInv,
       Refreshing, Asking, Pending, Saving, StillLive, StoredIsLive, RefreshIsValid, Earned

LEMMA StepInv == ASSUME IInv, [Next]_vars PROVE IInv'
<1>1. ASSUME NEW p \in Proc, ProcStep(p)
      PROVE  IInv'
  <2>1. CASE Ask(p) \/ LockRefresh(p) \/ ReadRefresh(p) \/ Exchange(p) \/ ApplyAnswer(p)
    BY <2>1, AskInv, LockRefreshInv, ReadRefreshInv, ExchangeInv, ApplyAnswerInv
  <2>2. CASE LockStore(p) \/ WriteStore(p) \/ Use(p)
    BY <2>2, LockStoreInv, WriteStoreInv, UseInv
  <2>3. CASE ExchangeCode(p) \/ InstallSession(p) \/ Annotate(p)
    BY <2>3, ExchangeCodeInv, InstallSessionInv, AnnotateInv
  <2>4. CASE CheckSession(p) \/ GrantGame(p) \/ CacheGameToken(p) \/ ListSaves(p)
    BY <2>4, CheckSessionInv, GrantGameInv, CacheGameTokenInv, ListSavesInv
  <2>5. QED BY <1>1, <2>1, <2>2, <2>3, <2>4 DEF ProcStep
<1>2. ASSUME NEW p \in Proc, Begin(p) \/ AskGame(p)
      PROVE  IInv'
  BY <1>2, BeginInv, AskGameInv
<1>3. CASE ForgetSession \/ ClearStore \/ Expire \/ Revoke \/ Restart
  BY <1>3, ForgetSessionInv, ClearStoreInv, ExpireInv, RevokeInv, RestartInv
<1>4. CASE UNCHANGED vars
  BY <1>4, StutterInv
<1>5. QED BY <1>1, <1>2, <1>3, <1>4 DEF Next

\* The invariant holds in every behaviour.
THEOREM Invariant == Spec => []IInv
<1>1. Init => IInv
  BY InitInv
<1>2. IInv /\ [Next]_vars => IInv'
  BY StepInv
<1>3. QED BY <1>1, <1>2, PTL DEF Spec

\* The variables keep their types, whoever meets.
THEOREM TypeCorrect == Spec => []TypeOK
<1>1. IInv => TypeOK
  BY DEF IInv
<1>2. QED BY <1>1, Invariant, PTL

\* What a restart will find is the session there is, or somebody is on the way
\* to store it: the writes of internal/gog's saveSession and Logout reach the
\* table auth in the order of the sessions.
THEOREM StoreFollows == Spec => []StoredIsLive
<1>1. IInv => StoredIsLive
  BY DEF IInv, StoreInv
<1>2. QED BY <1>1, Invariant, PTL

\* A refresh token is spent once: the one in memory is accepted by GOG, unless
\* GOG took it back or the answer that replaces it is on the way.
THEOREM SpentOnce == Spec => []RefreshIsValid
<1>1. IInv => RefreshIsValid
  BY DEF IInv, ValidInv
<1>2. QED BY <1>1, Invariant, PTL

\* Only a real rejection marks a session as expired: no late answer marks its
\* successor.
THEOREM MarkedWhenRejected == Spec => []ErrorIsEarned
<1>1. IInv => ErrorIsEarned
  BY DEF IInv, ErrorInv, Earned, ErrorIsEarned
<1>2. QED BY <1>1, Invariant, PTL

-----------------------------------------------------------------------------
(* The account in memory.                                                  *)

LEMMA OwnerStays ==
    ASSUME IInv, token'.refresh = token.refresh,
           \A i \in 1..Len(grants) : grants'[i] = grants[i]
    PROVE  Owner(token.refresh)' = Owner(token.refresh)
<1>1. CASE token.refresh = 0
  BY <1>1 DEF Owner
<1>2. CASE token.refresh # 0
  <2>1. token.refresh \in 1..Len(grants)
    BY <1>2, Known
  <2>2. QED BY <1>2, <2>1 DEF Owner
<1>3. QED BY <1>1, <1>2

LEMMA OwnerSteps ==
    ASSUME IInv, Next
    PROVE  \/ Owner(token.refresh)' \in {Owner(token.refresh), Nobody}
           \/ \E p \in SignIns : proc[p].pc = "install" /\ proc[p]'.pc = "save"
           \/ token' = stored
<1>1. ASSUME token' = token, grants' = grants
      PROVE  Owner(token.refresh)' = Owner(token.refresh)
  BY <1>1, OwnerStays
<1>2. ASSUME NEW p \in Proc,
             \/ Begin(p) \/ AskGame(p) \/ Ask(p) \/ LockRefresh(p) \/ ReadRefresh(p)
             \/ LockStore(p) \/ WriteStore(p) \/ Annotate(p)
             \/ CheckSession(p) \/ GrantGame(p) \/ CacheGameToken(p) \/ ListSaves(p)
      PROVE  Owner(token.refresh)' = Owner(token.refresh)
  <2>1. token' = token /\ grants' = grants
    <3>1. CASE Begin(p) \/ AskGame(p) \/ Ask(p) \/ LockRefresh(p) \/ ReadRefresh(p)
      BY <3>1 DEF Begin, AskGame, Ask, LockRefresh, ReadRefresh, client, gog
    <3>2. CASE LockStore(p) \/ WriteStore(p) \/ Annotate(p)
      BY <3>2 DEF LockStore, WriteStore, Annotate, Annotated, client, gog
    <3>3. CASE CheckSession(p) \/ GrantGame(p) \/ CacheGameToken(p) \/ ListSaves(p)
      BY <3>3 DEF CheckSession, GrantGame, CacheGameToken, ListSaves, client, gog
    <3>4. QED BY <1>2, <3>1, <3>2, <3>3
  <2>2. QED BY <1>1, <2>1
<1>3. ASSUME NEW p \in Proc, Use(p) \/ Expire
      PROVE  Owner(token.refresh)' = Owner(token.refresh)
  <2>1. token'.refresh = token.refresh /\ grants' = grants
    BY <1>3 DEF Use, Expire, gog, IInv, TypeOK, Token
  <2>2. QED BY <2>1, OwnerStays
<1>4. ASSUME NEW p \in Proc, Exchange(p) \/ ExchangeCode(p)
      PROVE  Owner(token.refresh)' = Owner(token.refresh)
  <2>1. token' = token
    BY <1>4 DEF Exchange, ExchangeCode, client
  <2>2. CASE grants' = grants
    BY <1>1, <2>1, <2>2
  <2>3. ASSUME NEW o, NEW old, Issue(o, old)
        PROVE  \A i \in 1..Len(grants) : grants'[i] = grants[i]
    BY <2>3, LenProperties DEF Issue, IInv, TypeOK
  <2>4. CASE Exchange(p)
    <3>1. UNCHANGED gog \/ Issue(Owner(proc[p].refresh), {proc[p].refresh})
      BY <2>4 DEF Exchange
    <3>2. QED BY <2>1, <2>2, <2>3, <3>1, OwnerStays DEF gog
  <2>5. CASE ExchangeCode(p)
    <3>1. grants' = grants \/ Issue(p, {})
      BY <2>5 DEF ExchangeCode
    <3>2. QED BY <2>1, <2>2, <2>3, <3>1, OwnerStays
  <2>6. QED BY <1>4, <2>4, <2>5
<1>5. ASSUME NEW p \in Proc, ApplyAnswer(p)
      PROVE  Owner(token.refresh)' = Owner(token.refresh)
  <2>1. grants' = grants /\ proc[p].pc = "answer"
    BY <1>5 DEF ApplyAnswer, gog
  <2>2. CASE token' = token
    BY <1>1, <2>1, <2>2
  <2>3. CASE token' = Refreshed(p) /\ IsCurrent(p)
    <3>1. token \in Token /\ token.refresh = proc[p].refresh
      BY <2>3 DEF IInv, TypeOK, IsCurrent
    <3>2. CASE proc[p].answer # "granted"
      <4>1. token'.refresh = token.refresh
        BY <2>3, <3>1, <3>2 DEF Refreshed, Token
      <4>2. QED BY <2>1, <4>1, OwnerStays
    <3>3. CASE proc[p].answer = "granted"
      <4>1. token'.refresh = proc[p].new
        BY <2>3, <3>1, <3>3 DEF Refreshed, Token
      <4>2. proc[p].new # 0 /\ proc[p].refresh # 0 /\ grants[proc[p].new] = grants[proc[p].refresh]
        BY <2>1, <3>3 DEF IInv, FreshInv, Pending
      <4>3. QED BY <2>1, <3>1, <4>1, <4>2 DEF Owner
    <3>4. QED BY <3>2, <3>3
  <2>4. QED BY <1>5, <2>2, <2>3 DEF ApplyAnswer
<1>6. ASSUME NEW p \in Proc, InstallSession(p)
      PROVE  p \in SignIns /\ proc[p].pc = "install" /\ proc[p]'.pc = "save"
  BY <1>6 DEF InstallSession, Step, Idle, IInv, TypeOK, LockInv
<1>7. CASE ForgetSession
  BY <1>7 DEF ForgetSession, LoggedOut, Owner
<1>8. CASE ClearStore \/ Revoke
  BY <1>1, <1>8 DEF ClearStore, Revoke, client, gog
<1>9. CASE Restart
  BY <1>9 DEF Restart
<1>10. CASE Expire
  BY <1>3, <1>10, ConstantFacts
<1>11. CASE \E p \in Proc : Begin(p) \/ AskGame(p) \/ ProcStep(p)
  BY <1>2, <1>3, <1>4, <1>5, <1>6, <1>11 DEF ProcStep
<1>12. QED BY <1>7, <1>8, <1>9, <1>10, <1>11 DEF Next

\* A logout and a login are final for what began before them: no request that
\* was on its way changes the account in memory back.
THEOREM LateAnswersRefused == Spec => SessionsEnd
<1>1. IInv /\ [Next]_vars =>
        [\/ Owner(token.refresh)' \in {Owner(token.refresh), Nobody}
         \/ \E p \in SignIns : proc[p].pc = "install" /\ proc[p]'.pc = "save"
         \/ token' = stored]_vars
  BY OwnerSteps
<1>2. QED BY <1>1, Invariant, PTL DEF Spec, SessionsEnd
=============================================================================
