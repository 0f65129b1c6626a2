--------------------------- MODULE GamePlanProofs ---------------------------
(***************************************************************************)
(* What GamePlan promises for every listing, catalogue and choice of       *)
(* settings, proved with TLAPS.                                            *)
(***************************************************************************)
EXTENDS GamePlan, WellFoundedInduction, TLAPS

\* A plan is made of what is listed.
LEMMA ChooseFromListed ==
    ASSUME NEW F, NEW s
    PROVE  ChooseLanguages(F, s) \subseteq F
BY DEF ChooseLanguages, Fallback, First

LEMMA PlanFilesFromListed ==
    ASSUME NEW F, NEW p, NEW s
    PROVE  PlanFiles(F, p, s) \subseteq F
<1>1. \A os : ChooseLanguages(OfKind(F, "installer", p, os), s) \subseteq F
  BY ChooseFromListed DEF OfKind
<1>2. \A os : ChoosePatches(F, p, os, s) \subseteq F
  BY ChooseFromListed DEF OfKind, ChoosePatches
<1>3. QED BY <1>1, <1>2 DEF PlanFiles

LEMMA PlanFromListed ==
    ASSUME NEW F, NEW D, NEW t, NEW o
    PROVE  Plan(F, D, t, o) \subseteq F
<1> DEFINE s == ForGame(t, o)
<1>1. /\ PlanFiles(F, Base, s) \subseteq F
      /\ \A p \in D : PlanFiles(F, p, s) \subseteq F
  BY PlanFilesFromListed
<1> HIDE DEF s
<1>2. Plan(F, D, t, o) =
        PlanFiles(F, Base, s)
        \cup (IF "dlc" \in s.include THEN UNION {PlanFiles(F, p, s) : p \in D} ELSE {})
  BY DEF Plan, s
<1>3. QED BY <1>1, <1>2

\* The languages of the chosen installers are selected ones, or no installer
\* in a selected language is listed.
LEMMA ChosenLanguages ==
    ASSUME NEW F, NEW s, NEW f \in ChooseLanguages(F, s),
           ~WantsLanguage(s, Listing[f].lang)
    PROVE  s.fallback /\ \A g \in F : ~WantsLanguage(s, Listing[g].lang)
BY DEF ChooseLanguages
\* Why a file is in the plan of a product.
LEMMA InPlanFiles ==
    ASSUME NEW F, NEW p, NEW s, NEW f \in PlanFiles(F, p, s)
    PROVE  /\ f \in F /\ Listing[f].product = p
           /\ \/ /\ Listing[f].kind = "installer" /\ Listing[f].os \in s.platforms
                 /\ p = Base => "installers" \in s.include
                 /\ f \in ChooseLanguages(OfKind(F, "installer", p, Listing[f].os), s)
              \/ /\ Listing[f].kind = "patch" /\ "patches" \in s.include
                 /\ Listing[f].os \in s.platforms
                 /\ f \in ChoosePatches(F, p, Listing[f].os, s)
              \/ Listing[f].kind = "extra" /\ "extras" \in s.include
<1> DEFINE installers == p # Base \/ "installers" \in s.include
<1>1. CASE installers /\ \E os \in s.platforms :
                  f \in ChooseLanguages(OfKind(F, "installer", p, os), s)
  <2>1. PICK os \in s.platforms : f \in ChooseLanguages(OfKind(F, "installer", p, os), s)
    BY <1>1
  <2>2. f \in OfKind(F, "installer", p, os)
    BY <2>1, ChooseFromListed
  <2>3. f \in F /\ Listing[f].product = p /\ Listing[f].kind = "installer" /\ Listing[f].os = os
    BY <2>2 DEF OfKind
  <2>4. QED BY <1>1, <2>1, <2>3
<1>2. CASE "patches" \in s.include /\ \E os \in s.platforms : f \in ChoosePatches(F, p, os, s)
  <2>1. PICK os \in s.platforms : f \in ChoosePatches(F, p, os, s)
    BY <1>2
  <2>2. f \in OfKind(F, "patch", p, os)
    BY <2>1, ChooseFromListed DEF ChoosePatches
  <2>3. f \in F /\ Listing[f].product = p /\ Listing[f].kind = "patch" /\ Listing[f].os = os
    BY <2>2 DEF OfKind
  <2>4. QED BY <1>2, <2>1, <2>3
<1>3. CASE /\ "extras" \in s.include
           /\ f \in F /\ Listing[f].kind = "extra" /\ Listing[f].product = p
  BY <1>3
<1>4. \/ installers /\ \E os \in s.platforms : f \in ChooseLanguages(OfKind(F, "installer", p, os), s)
      \/ "patches" \in s.include /\ \E os \in s.platforms : f \in ChoosePatches(F, p, os, s)
      \/ /\ "extras" \in s.include
         /\ f \in F /\ Listing[f].kind = "extra" /\ Listing[f].product = p
  BY DEF PlanFiles
<1>5. QED BY <1>1, <1>2, <1>3, <1>4

LEMMA InPlan ==
    ASSUME NEW F, NEW D, NEW t, NEW o, NEW f \in Plan(F, D, t, o)
    PROVE  \/ f \in PlanFiles(F, Base, ForGame(t, o))
           \/ /\ "dlc" \in ForGame(t, o).include
              /\ \E p \in D : f \in PlanFiles(F, p, ForGame(t, o))
<1> DEFINE s == ForGame(t, o)
<1> HIDE DEF s
<1>1. Plan(F, D, t, o) =
        PlanFiles(F, Base, s)
        \cup (IF "dlc" \in s.include THEN UNION {PlanFiles(F, p, s) : p \in D} ELSE {})
  BY DEF Plan, s
<1>2. QED BY <1>1 DEF s

-----------------------------------------------------------------------------
(* The rule a change drops files by, against the plan.                     *)

\* What planning from F leaves in T: every file is listed, and a patch has an
\* installer in its language beside it, unless its platform has none at all.
Grounded(T, F) ==
    \A f \in T \ Save :
       LET installers == OfKind(F, "installer", Listing[f].product, Listing[f].os)
       IN  /\ f \in F
           /\ Listing[f].kind = "patch"
              => installers = {} \/ Listing[f].lang \in Languages(installers)

LEMMA PlanIsGrounded ==
    ASSUME NEW F, NEW D, NEW t, NEW o
    PROVE  Grounded(Plan(F, D, t, o), F)
<1>1. SUFFICES ASSUME NEW f \in Plan(F, D, t, o), Listing[f].kind = "patch"
      PROVE  LET installers == OfKind(F, "installer", Listing[f].product, Listing[f].os)
             IN  installers = {} \/ Listing[f].lang \in Languages(installers)
  BY PlanFromListed DEF Grounded
<1> DEFINE s == ForGame(t, o)
           installers == OfKind(F, "installer", Listing[f].product, Listing[f].os)
<1>2. \E p : f \in PlanFiles(F, p, s)
  BY InPlan
<1>3. f \in ChoosePatches(F, Listing[f].product, Listing[f].os, s)
  BY <1>1, <1>2, InPlanFiles
<1>4. ChooseLanguages(installers, s) \subseteq installers
  BY ChooseFromListed
<1>5. QED BY <1>3, <1>4 DEF ChoosePatches, Languages

\* The heart of it: no file that is planned from F is unwanted among files that
\* were planned from F, under whatever settings and options.
LEMMA PlannedIsWanted ==
    ASSUME NEW F, NEW D \in SUBSET Dlc, NEW t, NEW o, NEW T, Grounded(T, F),
           NEW f \in T, f \in Plan(F, D, t, o)
    PROVE  ~Unwanted(f, t, o, T)
<1> DEFINE s == ForGame(t, o)
           p == Listing[f].product
           os == Listing[f].os
           installers == OfKind(F, "installer", p, os)
<1> HIDE DEF s
<1>1. /\ p # Base => "dlc" \in s.include
      /\ f \in PlanFiles(F, p, s)
  <2>1. CASE f \in PlanFiles(F, Base, s)
    BY <2>1, InPlanFiles
  <2>2. CASE "dlc" \in s.include /\ \E q \in D : f \in PlanFiles(F, q, s)
    <3>1. PICK q \in D : f \in PlanFiles(F, q, s)
      BY <2>2
    <3>2. p = q /\ p # Base
      BY <3>1, InPlanFiles, BaseAssumption
    <3>3. QED BY <2>2, <3>1, <3>2
  <2>3. QED BY <2>1, <2>2, InPlan DEF s
<1>2. \/ /\ Listing[f].kind = "installer" /\ os \in s.platforms
         /\ p = Base => "installers" \in s.include
         /\ f \in ChooseLanguages(installers, s)
      \/ /\ Listing[f].kind = "patch" /\ "patches" \in s.include /\ os \in s.platforms
         /\ f \in ChoosePatches(F, p, os, s)
      \/ Listing[f].kind = "extra" /\ "extras" \in s.include
  <2>1. CASE p = Base
    BY <1>1, <2>1, InPlanFiles
  <2>2. CASE p # Base
    BY <1>1, <2>2, InPlanFiles
  <2>3. QED BY <2>1, <2>2
<1>3. \A g \in T : Listing[g].kind = "installer" => g \in F
  BY DEF Grounded, Save
<1>4. ASSUME Listing[f].kind \in {"installer", "patch"}, ~WantsLanguage(s, Listing[f].lang)
      PROVE  s.fallback /\ FallsBackTo(f, s, T)
  <2>1. CASE Listing[f].kind = "installer"
    <3>1. s.fallback /\ \A g \in installers : ~WantsLanguage(s, Listing[g].lang)
      BY <1>2, <1>4, <2>1, ChosenLanguages
    <3>2. OfKind(T, "installer", p, os) \subseteq installers
      BY <1>3 DEF OfKind
    <3>3. QED BY <2>1, <3>1, <3>2 DEF FallsBackTo, TrackedLanguages, Languages
  <2>2. CASE Listing[f].kind = "patch"
    <3>1. f \in ChoosePatches(F, p, os, s)
      BY <1>2, <2>2
    <3>2. OfKind(T, "installer", p, os) \subseteq installers
      BY <1>3 DEF OfKind
    <3>3. CASE installers = {}
      <4>1. f \in ChooseLanguages(OfKind(F, "patch", p, os), s)
        BY <3>1, <3>3 DEF ChoosePatches
      <4>2. s.fallback /\ \A g \in OfKind(F, "patch", p, os) : ~WantsLanguage(s, Listing[g].lang)
        BY <1>4, <4>1, ChosenLanguages
      <4>3. OfKind(T, "patch", p, os) \subseteq OfKind(F, "patch", p, os)
        BY DEF Grounded, Save, OfKind
      <4>4. QED BY <2>2, <3>2, <3>3, <4>2, <4>3 DEF FallsBackTo, TrackedLanguages, Languages
    <3>4. CASE installers # {}
      <4>1. Listing[f].lang \in Languages(ChooseLanguages(installers, s))
        BY <3>1, <3>4 DEF ChoosePatches
      <4>2. PICK g \in ChooseLanguages(installers, s) : Listing[g].lang = Listing[f].lang
        BY <4>1 DEF Languages
      <4>3. s.fallback /\ \A h \in installers : ~WantsLanguage(s, Listing[h].lang)
        BY <1>4, <4>2, ChosenLanguages
      <4>4. \A h \in OfKind(T, "patch", p, os) : Listing[h].lang \in Languages(installers)
        BY <3>4 DEF Grounded, Save, OfKind
      <4>5. QED BY <2>2, <3>2, <4>3, <4>4 DEF FallsBackTo, TrackedLanguages, Languages
    <3>5. QED BY <3>3, <3>4
  <2>3. QED BY <1>4, <2>1, <2>2
<1>5. QED BY <1>1, <1>2, <1>4 DEF Unwanted, WantsPlatform, s

-----------------------------------------------------------------------------
(* Types.                                                                  *)

\* Every variable keeps its type: whatever GOG lists and the user chooses, what
\* is planned and tracked is made of files GOG listed.
THEOREM TypeCorrect == Spec => []TypeOK
<1>1. NoSync \in GameSync
  <2>1. (CHOOSE s \in NewSettings : TRUE) \in SettingsRecord
    BY InputAssumption
  <2>2. QED BY <2>1 DEF NoSync, GameSync
<1>2. Init => TypeOK
  BY <1>1, InputAssumption DEF Init, TypeOK
<1>3. TypeOK /\ [Next]_vars => TypeOK'
  <2> SUFFICES ASSUME TypeOK, [Next]_vars PROVE TypeOK'
    OBVIOUS
  <2> USE DEF TypeOK
  <2>1. CASE StartSync
    BY <1>1, <2>1 DEF StartSync, GameSync, world, chosen, File, Save
  <2>2. CASE FetchDetails
    <3>1. Plan(catalogue, sync.owned, sync.snap, options) \subseteq File
      BY PlanFromListed
    <3>2. QED BY <2>2, <3>1 DEF FetchDetails, GameSync, world, chosen
  <2>3. CASE SavesPlanned
    BY <2>3 DEF SavesPlanned, GameSync, world, chosen, Save
  <2>4. CASE SavesUnknown
    BY <2>4 DEF SavesUnknown, AfterFailedListing, GameSync, world, chosen
  <2>5. CASE Upsert
    <3>1. PICK f \in First(sync.todo) :
             /\ tracked' = tracked \cup {f}
             /\ sync' = [sync EXCEPT !.todo = @ \ {f}, !.keep = @ \cup {f}]
      BY <2>5 DEF Upsert
    <3>2. f \in File
      BY DEF First, GameSync
    <3>3. sync' \in GameSync
      BY <3>1, <3>2 DEF GameSync
    <3>4. QED BY <2>5, <3>1, <3>2, <3>3 DEF Upsert, world, chosen
  <2>6. CASE DropOthers
    BY <1>1, <2>6 DEF DropOthers, world
  <2>7. ASSUME NEW os \in GalaxyPlatform, NEW again \in BOOLEAN, FindClient(os, again)
        PROVE  TypeOK'
    <3>1. clients' \in [GalaxyPlatform -> Client \cup {NoClient, Unasked}]
      BY <2>7, ClientAssumption DEF FindClient
    <3>2. {clients'[os]} \ {NoClient} \subseteq Client
      BY <2>7, ClientAssumption DEF FindClient
    <3>3. QED BY <2>7, <3>1, <3>2 DEF FindClient, GameSync, world, chosen
  <2>8. ASSUME NEW c \in Client, ListCloudSaves(c)
        PROVE  TypeOK'
    BY <2>8 DEF ListCloudSaves, GameSync, world, chosen
  <2>9. CASE Interrupted
    BY <1>1, <2>9 DEF Interrupted, world, chosen
  <2>10. ASSUME NEW s \in NewSettings, ApplySettings(s)
         PROVE  TypeOK'
    BY <1>1, <2>10, InputAssumption DEF ApplySettings, Left, world
  <2>11. ASSUME NEW o \in NewOptions, SetGameOptions(o)
         PROVE  TypeOK'
    BY <2>11, InputAssumption DEF SetGameOptions, Left, world
  <2>12. ASSUME NEW f \in File, Publish(f)
         PROVE  TypeOK'
    <3>1. cloud' \subseteq Save /\ catalogue' \subseteq File \ Save /\ fresh' \in BOOLEAN
      BY <2>12 DEF Publish
    <3>2. published' \in 0..MaxPublished
      BY <2>12, InputAssumption DEF Publish
    <3>3. sync' \in GameSync
      BY <2>12 DEF Publish, GameSync
    <3>4. QED BY <2>12, <3>1, <3>2, <3>3 DEF Publish
  <2>13. ASSUME NEW d \in Dlc, Buy(d)
         PROVE  TypeOK'
    <3>1. published' \in 0..MaxPublished
      BY <2>13, InputAssumption DEF Buy
    <3>2. QED BY <2>13, <3>1 DEF Buy, chosen
  <2>14. CASE UNCHANGED vars
    BY <2>14 DEF vars
  <2>15. QED
    BY <2>1, <2>2, <2>3, <2>4, <2>5, <2>6, <2>7, <2>8, <2>9, <2>10, <2>11,
       <2>12, <2>13, <2>14 DEF Next, SyncStep
<1>4. QED BY <1>2, <1>3, PTL DEF Spec

-----------------------------------------------------------------------------
(* A change spares what is wanted.                                         *)

\* While GOG lists what it did when the tracked files were planned, they are
\* grounded in its listing; and so is, in the listing it works from, whatever a
\* sync has planned.
FreshInv ==
    /\ fresh => Grounded(tracked, catalogue)
    /\ sync.pc \in {"clients", "saves", "upsert"} =>
          /\ Grounded(sync.todo, sync.seen) /\ Grounded(sync.keep, sync.seen)
          /\ fresh => sync.seen = catalogue
    /\ sync.pc = "fetch" => sync.keep = {}

\* Fewer files, the saves, and files planned from the same listing.
LEMMA GroundedSets ==
    /\ \A T, U, F : Grounded(T, F) /\ U \subseteq T \cup Save => Grounded(U, F)
    /\ \A T, U, F : Grounded(T, F) /\ Grounded(U, F) => Grounded(T \cup U, F)
  BY DEF Grounded

LEMMA FreshInvariant == Spec => []FreshInv
<1>1. Init => FreshInv
  BY DEF Init, FreshInv, Grounded, NoSync
<1>2. TypeOK /\ FreshInv /\ [Next]_vars => FreshInv'
  <2> SUFFICES ASSUME TypeOK, FreshInv, [Next]_vars PROVE FreshInv'
    OBVIOUS
  <2>0. ASSUME NoSync = sync', fresh' => Grounded(tracked', catalogue')
        PROVE  FreshInv'
    BY <2>0 DEF FreshInv, NoSync
  <2>1. CASE StartSync
    BY <2>1 DEF StartSync, FreshInv, NoSync, world, chosen
  <2>2. CASE FetchDetails
    <3> DEFINE plan == Plan(catalogue, sync.owned, sync.snap, options)
    <3>1. Grounded(plan, catalogue)
      BY PlanIsGrounded
    <3>2. sync'.todo = plan /\ sync'.keep = {} /\ sync'.seen = catalogue
      BY <2>2 DEF FetchDetails, TypeOK, GameSync, FreshInv
    <3>3. Grounded({}, catalogue)
      BY DEF Grounded
    <3> HIDE DEF plan
    <3>4. sync'.pc # "fetch" /\ UNCHANGED <<catalogue, fresh, tracked>>
      BY <2>2 DEF FetchDetails, TypeOK, GameSync, world, chosen
    <3>5. QED BY <3>1, <3>2, <3>3, <3>4 DEF FreshInv
  <2>3. CASE SavesPlanned
    <3>1. /\ sync'.todo = sync.todo \cup sync.saves /\ sync'.keep = sync.keep
          /\ sync'.seen = sync.seen /\ sync'.pc = "upsert" /\ sync.pc = "saves"
          /\ sync.saves \subseteq Save
      BY <2>3 DEF SavesPlanned, TypeOK, GameSync
    <3>2. Grounded(sync'.todo, sync.seen)
      BY <3>1, GroundedSets DEF FreshInv
    <3>3. UNCHANGED <<catalogue, fresh, tracked>>
      BY <2>3 DEF SavesPlanned, world, chosen
    <3>4. QED BY <3>1, <3>2, <3>3 DEF FreshInv
  <2>4. CASE SavesUnknown
    <3>1. /\ sync'.todo = sync.todo /\ sync'.keep = tracked \cap Save
          /\ sync'.seen = sync.seen /\ sync'.pc = "upsert"
          /\ sync.pc \in {"clients", "saves"}
      BY <2>4 DEF SavesUnknown, AfterFailedListing, TypeOK, GameSync
    <3>2. Grounded(sync'.keep, sync.seen)
      BY <3>1 DEF Grounded
    <3>3. UNCHANGED <<catalogue, fresh, tracked>>
      BY <2>4 DEF SavesUnknown, world, chosen
    <3>4. QED BY <3>1, <3>2, <3>3 DEF FreshInv
  <2>5. CASE Upsert
    <3>1. PICK f \in First(sync.todo) :
             /\ tracked' = tracked \cup {f}
             /\ sync' = [sync EXCEPT !.todo = @ \ {f}, !.keep = @ \cup {f}]
      BY <2>5 DEF Upsert
    <3>2. /\ sync'.todo \subseteq sync.todo /\ sync'.keep = sync.keep \cup {f}
          /\ sync'.seen = sync.seen /\ sync'.pc = "upsert" /\ sync.pc = "upsert"
      BY <2>5, <3>1 DEF Upsert, TypeOK, GameSync
    <3>3. Grounded({f}, sync.seen)
      BY <3>2, GroundedSets DEF FreshInv, First
    <3>4. Grounded(sync'.todo, sync.seen) /\ Grounded(sync'.keep, sync.seen)
      BY <3>2, <3>3, GroundedSets DEF FreshInv
    <3>5. fresh => Grounded(tracked', catalogue)
      BY <3>1, <3>2, <3>3, GroundedSets DEF FreshInv
    <3>6. UNCHANGED <<catalogue, fresh>>
      BY <2>5 DEF Upsert, world, chosen
    <3>7. QED BY <3>2, <3>4, <3>5, <3>6 DEF FreshInv
  <2>6. CASE DropOthers
    <3>1. Grounded(sync.keep, sync.seen) /\ (fresh => sync.seen = catalogue)
      BY <2>6 DEF DropOthers, FreshInv
    <3>2. fresh' => Grounded(sync.keep, catalogue')
      BY <2>6, <3>1 DEF DropOthers, world
    <3>3. fresh' => Grounded(tracked', catalogue')
      BY <2>6, <3>2, GroundedSets DEF DropOthers
    <3>4. QED BY <2>0, <2>6, <3>3 DEF DropOthers
  <2>7. ASSUME NEW os \in GalaxyPlatform, NEW again \in BOOLEAN, FindClient(os, again)
        PROVE  FreshInv'
    <3>1. /\ sync'.todo = sync.todo /\ sync'.keep = sync.keep /\ sync'.seen = sync.seen
          /\ sync'.pc \in {"clients", "saves"} /\ sync.pc = "clients"
          /\ UNCHANGED <<catalogue, fresh, tracked>>
      BY <2>7 DEF FindClient, TypeOK, GameSync, world, chosen
    <3>2. QED BY <3>1 DEF FreshInv
  <2>8. ASSUME NEW c \in Client, ListCloudSaves(c)
        PROVE  FreshInv'
    <3>1. /\ sync'.todo = sync.todo /\ sync'.keep = sync.keep /\ sync'.seen = sync.seen
          /\ sync'.pc = sync.pc
          /\ UNCHANGED <<catalogue, fresh, tracked>>
      BY <2>8 DEF ListCloudSaves, TypeOK, GameSync, world, chosen
    <3>2. QED BY <3>1 DEF FreshInv
  <2>9. CASE Interrupted
    BY <2>0, <2>9 DEF Interrupted, world, chosen, FreshInv
  <2>10. ASSUME NEW s \in NewSettings, ApplySettings(s)
         PROVE  FreshInv'
    <3>1. tracked' \subseteq tracked /\ UNCHANGED <<catalogue, fresh>>
      BY <2>10 DEF ApplySettings, Left, world
    <3>2. fresh' => Grounded(tracked', catalogue')
      BY <3>1, GroundedSets DEF FreshInv
    <3>3. CASE sync' = NoSync
      BY <2>0, <3>2, <3>3
    <3>4. CASE sync' = sync
      BY <3>1, <3>2, <3>4 DEF FreshInv
    <3>5. QED BY <2>10, <3>3, <3>4 DEF ApplySettings
  <2>11. ASSUME NEW o \in NewOptions, SetGameOptions(o)
         PROVE  FreshInv'
    <3>1. tracked' \subseteq tracked /\ UNCHANGED <<catalogue, fresh, sync>>
      BY <2>11 DEF SetGameOptions, Left, world
    <3>2. fresh' => Grounded(tracked', catalogue')
      BY <3>1, GroundedSets DEF FreshInv
    <3>3. QED BY <3>1, <3>2 DEF FreshInv
  <2>12. ASSUME NEW f \in File, Publish(f)
         PROVE  FreshInv'
    <3>1. /\ sync'.todo = sync.todo /\ sync'.keep = sync.keep
          /\ sync'.seen = sync.seen /\ sync'.pc = sync.pc
          /\ tracked' = tracked
      BY <2>12 DEF Publish, TypeOK, GameSync
    <3>2. ~fresh' \/ UNCHANGED <<catalogue, fresh>>
      BY <2>12 DEF Publish
    <3>3. QED BY <3>1, <3>2 DEF FreshInv
  <2>13. ASSUME NEW d \in Dlc, Buy(d)
         PROVE  FreshInv'
    BY <2>13 DEF Buy, chosen, FreshInv
  <2>14. CASE UNCHANGED vars
    BY <2>14 DEF vars, FreshInv
  <2>15. QED
    BY <2>1, <2>2, <2>3, <2>4, <2>5, <2>6, <2>7, <2>8, <2>9, <2>10, <2>11,
       <2>12, <2>13, <2>14 DEF Next, SyncStep
<1>3. QED BY <1>1, <1>2, TypeCorrect, PTL DEF Spec

\* Whatever GOG lists, whatever is selected: a change never drops a file that
\* the next sync would plan again from the listing the tracked files came from.
THEOREM ChangeSpares == Spec => ChangeSparesWanted
<1> DEFINE Spares ==
      \A f \in tracked \ tracked' :
         ByChange /\ fresh
         => /\ f \notin Plan(catalogue, owned, settings', options')
            /\ f \in Save => "saves" \notin ForGame(settings', options').include
<1>1. TypeOK /\ FreshInv /\ [Next]_vars => [Spares]_vars
  <2> SUFFICES ASSUME TypeOK, FreshInv, Next, ByChange, fresh,
                      NEW f \in tracked \ tracked'
      PROVE  /\ f \notin Plan(catalogue, owned, settings', options')
             /\ f \in Save => "saves" \notin ForGame(settings', options').include
    BY DEF vars
  <2>1. Unwanted(f, settings', options', tracked)
    <3>1. CASE \E s \in NewSettings : ApplySettings(s)
      BY <3>1 DEF ApplySettings, Left
    <3>2. CASE \E o \in NewOptions : SetGameOptions(o)
      BY <3>2 DEF SetGameOptions, Left
    <3>3. CASE DropOthers
      <4>1. sync.pc = "upsert" /\ sync'.pc = "idle"
        BY <3>3 DEF DropOthers, NoSync
      <4>2. UNCHANGED <<settings, options>>
        BY <3>3 DEF DropOthers
      <4>3. QED BY <4>1, <4>2 DEF ByChange
    <3>4. tracked \subseteq tracked' \/ DropOthers
          \/ (\E s \in NewSettings : ApplySettings(s)) \/ (\E o \in NewOptions : SetGameOptions(o))
      BY DEF Next, SyncStep, StartSync, FetchDetails, SavesPlanned, SavesUnknown, Upsert,
         FindClient, ListCloudSaves, Interrupted, Publish, Buy
    <3>5. QED BY <3>1, <3>2, <3>3, <3>4
  <2>2. Grounded(tracked, catalogue) /\ owned \subseteq Dlc
    BY DEF FreshInv, TypeOK
  <2>3. f \notin Plan(catalogue, owned, settings', options')
    BY <2>1, <2>2, PlannedIsWanted
  <2>4. f \in Save => "saves" \notin ForGame(settings', options').include
    BY <2>1, BaseAssumption DEF Unwanted, Save
  <2>5. QED BY <2>3, <2>4
<1>2. QED BY <1>1, TypeCorrect, FreshInvariant, PTL DEF Spec, ChangeSparesWanted

-----------------------------------------------------------------------------
(* A sync leaves nothing a change would drop.                              *)

\* What a sync with the settings t and the options o may leave active.
MayKeep(F, D, t, o) ==
    Plan(F, D, t, o) \cup (IF "saves" \in ForGame(t, o).include THEN Save ELSE {})

\* A sync that goes on knows the stored settings, and from the details on also
\* the game's options; what it has upserted and has yet to is from its plan.
SyncInv ==
    /\ sync.pc # "idle" => sync.snap = settings
    /\ sync.pc \in {"idle", "fetch"} => sync.keep = {}
    /\ sync.pc \in {"clients", "saves"} => "saves" \in ForGame(sync.snap, options).include
    /\ sync.pc \in {"clients", "saves", "upsert"} =>
          sync.todo \cup sync.keep \subseteq MayKeep(sync.seen, sync.owned, sync.snap, options)

LEMMA SyncInvariant == Spec => []SyncInv
<1>1. Init => SyncInv
  BY DEF Init, SyncInv, NoSync
<1>2. TypeOK /\ SyncInv /\ [Next]_vars => SyncInv'
  <2> SUFFICES ASSUME TypeOK, SyncInv, [Next]_vars PROVE SyncInv'
    OBVIOUS
  <2>0. ASSUME sync' = NoSync PROVE SyncInv'
    BY <2>0 DEF SyncInv, NoSync
  <2>1. CASE StartSync
    BY <2>1 DEF StartSync, SyncInv, NoSync, chosen
  <2>2. CASE FetchDetails
    <3> DEFINE plan == Plan(catalogue, sync.owned, sync.snap, options)
               withSaves == "saves" \in ForGame(sync.snap, options).include
    <3> HIDE DEF plan, withSaves
    <3>1. /\ sync'.todo = plan /\ sync'.keep = {} /\ sync'.seen = catalogue
          /\ sync'.snap = sync.snap /\ sync'.owned = sync.owned
          /\ sync'.pc = IF withSaves THEN "clients" ELSE "upsert"
      BY <2>2 DEF FetchDetails, TypeOK, GameSync, SyncInv, plan, withSaves
    <3>2. UNCHANGED <<settings, options>> /\ sync.snap = settings
      BY <2>2 DEF FetchDetails, chosen, SyncInv
    <3>3. plan \subseteq MayKeep(catalogue, sync.owned, sync.snap, options)
      BY DEF MayKeep, plan
    <3>4. sync'.todo \cup sync'.keep \subseteq MayKeep(sync'.seen, sync'.owned, sync'.snap, options')
      BY <3>1, <3>2, <3>3
    <3>5. sync'.pc \in {"clients", "saves"} => "saves" \in ForGame(sync'.snap, options').include
      BY <3>1, <3>2 DEF withSaves
    <3>6. QED BY <3>1, <3>2, <3>4, <3>5 DEF SyncInv
  <2>3. ASSUME /\ UNCHANGED <<settings, options>>
               /\ sync'.snap = sync.snap /\ sync'.owned = sync.owned /\ sync'.seen = sync.seen
               /\ sync.pc \in {"clients", "saves", "upsert"}
               /\ sync'.pc \in {"clients", "saves", "upsert"}
               /\ sync.pc = "upsert" => sync'.pc = "upsert"
               /\ sync'.todo \cup sync'.keep
                     \subseteq sync.todo \cup sync.keep
                        \cup (IF sync.pc = "upsert" THEN {} ELSE Save)
        PROVE  SyncInv'
    <3>1. sync'.todo \cup sync'.keep \subseteq MayKeep(sync.seen, sync.owned, sync.snap, options)
      BY <2>3 DEF SyncInv, MayKeep
    <3>2. sync.snap = settings
      BY <2>3 DEF SyncInv
    <3>3. sync'.pc \in {"clients", "saves"} => "saves" \in ForGame(sync.snap, options).include
      BY <2>3 DEF SyncInv
    <3>4. QED BY <2>3, <3>1, <3>2, <3>3 DEF SyncInv
  <2>4. CASE SavesPlanned
    <3>1. /\ UNCHANGED <<settings, options>>
          /\ sync' = [sync EXCEPT !.pc = "upsert", !.todo = @ \cup sync.saves]
          /\ sync.pc = "saves"
      BY <2>4 DEF SavesPlanned, chosen
    <3>2. QED BY <2>3, <3>1 DEF TypeOK, GameSync
  <2>5. CASE SavesUnknown
    <3>1. /\ UNCHANGED <<settings, options>>
          /\ sync' = [sync EXCEPT !.pc = "upsert", !.keep = tracked \cap Save]
          /\ sync.pc \in {"clients", "saves"}
      BY <2>5 DEF SavesUnknown, AfterFailedListing, chosen
    <3>2. QED BY <2>3, <3>1 DEF TypeOK, GameSync
  <2>6. CASE Upsert
    <3>1. /\ UNCHANGED <<settings, options>> /\ sync.pc = "upsert"
          /\ \E f \in sync.todo :
                sync' = [sync EXCEPT !.todo = @ \ {f}, !.keep = @ \cup {f}]
      BY <2>6 DEF Upsert, chosen, First
    <3>2. QED BY <2>3, <3>1 DEF TypeOK, GameSync
  <2>7. ASSUME NEW os \in GalaxyPlatform, NEW again \in BOOLEAN, FindClient(os, again)
        PROVE  SyncInv'
    <3>1. /\ UNCHANGED <<settings, options>> /\ sync.pc = "clients"
          /\ sync'.snap = sync.snap /\ sync'.owned = sync.owned /\ sync'.seen = sync.seen
          /\ sync'.todo = sync.todo /\ sync'.keep = sync.keep
          /\ sync'.pc \in {"clients", "saves"}
      BY <2>7 DEF FindClient, chosen, TypeOK, GameSync
    <3>2. QED BY <2>3, <3>1
  <2>8. ASSUME NEW c \in Client, ListCloudSaves(c)
        PROVE  SyncInv'
    <3>1. /\ UNCHANGED <<settings, options>> /\ sync.pc = "saves"
          /\ sync'.snap = sync.snap /\ sync'.owned = sync.owned /\ sync'.seen = sync.seen
          /\ sync'.todo = sync.todo /\ sync'.keep = sync.keep /\ sync'.pc = "saves"
      BY <2>8 DEF ListCloudSaves, chosen, TypeOK, GameSync
    <3>2. QED BY <2>3, <3>1
  <2>9. CASE DropOthers \/ Interrupted
    BY <2>0, <2>9 DEF DropOthers, Interrupted
  <2>10. ASSUME NEW s \in NewSettings, ApplySettings(s)
         PROVE  SyncInv'
    <3>1. CASE SamePlan(settings, s)
      BY <2>10, <3>1 DEF ApplySettings, SamePlan, SyncInv
    <3>2. CASE ~SamePlan(settings, s)
      BY <2>0, <2>10, <3>2 DEF ApplySettings
    <3>3. QED BY <3>1, <3>2
  <2>11. ASSUME NEW o \in NewOptions, SetGameOptions(o)
         PROVE  SyncInv'
    BY <2>11 DEF SetGameOptions, SyncInv
  <2>12. ASSUME NEW f \in File, Publish(f)
         PROVE  SyncInv'
    <3>1. /\ UNCHANGED <<settings, options>>
          /\ sync'.snap = sync.snap /\ sync'.owned = sync.owned /\ sync'.seen = sync.seen
          /\ sync'.todo = sync.todo /\ sync'.keep = sync.keep /\ sync'.pc = sync.pc
      BY <2>12 DEF Publish, TypeOK, GameSync
    <3>2. QED BY <3>1 DEF SyncInv
  <2>13. ASSUME NEW d \in Dlc, Buy(d)
         PROVE  SyncInv'
    BY <2>13 DEF Buy, chosen, SyncInv
  <2>14. CASE UNCHANGED vars
    BY <2>14 DEF vars, SyncInv
  <2>15. QED
    BY <2>1, <2>2, <2>4, <2>5, <2>6, <2>7, <2>8, <2>9, <2>10, <2>11,
       <2>12, <2>13, <2>14 DEF Next, SyncStep
<1>3. QED BY <1>1, <1>2, TypeCorrect, PTL DEF Spec

\* The two rules agree: what a sync left tracked to its end is wanted, by the
\* rule that only knows the tracked files, under the stored settings.
THEOREM SyncsSpare == Spec => SyncedIsWanted
<1> DEFINE Spares ==
      sync.pc = "upsert" /\ DropOthers
      => \A f \in tracked' : ~Unwanted(f, settings, options, tracked')
<1>1. TypeOK /\ SyncInv /\ FreshInv /\ [Next]_vars => [Spares]_vars
  <2> SUFFICES ASSUME TypeOK, SyncInv, FreshInv, sync.pc = "upsert", DropOthers,
                      NEW f \in tracked'
      PROVE  ~Unwanted(f, settings, options, tracked')
    BY DEF vars
  <2>1. tracked' = tracked \cap sync.keep
    BY DEF DropOthers
  <2>2. Grounded(tracked', sync.seen)
    BY <2>1, GroundedSets DEF FreshInv
  <2>3. f \in MayKeep(sync.seen, sync.owned, settings, options)
    BY <2>1 DEF SyncInv
  <2>4. CASE f \in Plan(sync.seen, sync.owned, settings, options)
    <3>1. sync.owned \in SUBSET Dlc
      BY DEF TypeOK, GameSync
    <3>2. QED BY <2>2, <2>4, <3>1, PlannedIsWanted
  <2>5. CASE f \in Save /\ "saves" \in ForGame(settings, options).include
    BY <2>5, BaseAssumption DEF Unwanted, Save
  <2>6. QED BY <2>3, <2>4, <2>5 DEF MayKeep
<1>2. QED BY <1>1, TypeCorrect, SyncInvariant, FreshInvariant, PTL DEF Spec, SyncedIsWanted
-----------------------------------------------------------------------------
(* Saves that are backed up stay.                                          *)

\* The saves of the clients GOG's builds name: no other is ever listed.
Listable == {f \in Save : \E os \in GalaxyPlatform : Listing[f].by = ClientOf[os]}

\* What is recorded of a client is GOG's answer; a sync knows the clients of
\* the platforms it has asked about, and has planned the saves of those it has
\* listed, or they were not in the cloud meanwhile.  So what it upserts leaves
\* out only saves it saw missing.
SavesInv ==
    /\ \A os \in GalaxyPlatform : clients[os] \in {Unasked, ClientOf[os]}
    /\ sync.found = {ClientOf[os] : os \in sync.asked} \ {NoClient}
    /\ sync.pc = "saves" => sync.asked = GalaxyPlatform
    /\ (tracked \cup sync.saves \cup sync.todo) \cap Save \subseteq Listable
    /\ sync.pc # "idle" => Save \ cloud \subseteq sync.lacked
    /\ sync.pc \notin {"saves", "upsert"} => sync.listed = {}
    /\ sync.pc \in {"clients", "saves"} =>
          \A f \in Save : Listing[f].by \in sync.listed => f \in sync.saves \cup sync.lacked
    /\ sync.pc = "upsert" /\ "saves" \in ForGame(sync.snap, options).include =>
          tracked \cap Save \subseteq sync.todo \cup sync.keep \cup sync.lacked

LEMMA SavesInvariant == Spec => []SavesInv
<1>1. Init => SavesInv
  BY DEF Init, SavesInv, NoSync
<1>2. TypeOK /\ SyncInv /\ SavesInv /\ [Next]_vars => SavesInv'
  <2> SUFFICES ASSUME TypeOK, SyncInv, SavesInv, [Next]_vars PROVE SavesInv'
    OBVIOUS
  <2>0. ASSUME sync' = NoSync, UNCHANGED clients, tracked' \subseteq tracked
        PROVE  SavesInv'
    BY <2>0 DEF SavesInv, NoSync
  <2>1. CASE StartSync
    BY <2>1 DEF StartSync, SavesInv, NoSync, world, chosen
  <2>2. CASE FetchDetails
    <3> DEFINE plan == Plan(catalogue, sync.owned, sync.snap, options)
               withSaves == "saves" \in ForGame(sync.snap, options).include
    <3>1. plan \cap Save = {}
      BY PlanFromListed DEF TypeOK
    <3> HIDE DEF plan, withSaves
    <3>2. /\ sync'.todo = plan /\ sync'.snap = sync.snap
          /\ sync'.found = sync.found /\ sync'.asked = sync.asked
          /\ sync'.listed = sync.listed /\ sync'.saves = sync.saves
          /\ sync'.lacked = sync.lacked
          /\ sync'.pc = IF withSaves THEN "clients" ELSE "upsert"
      BY <2>2 DEF FetchDetails, TypeOK, GameSync, plan, withSaves
    <3>3. UNCHANGED <<options, clients, tracked, cloud>> /\ sync.pc = "fetch"
      BY <2>2 DEF FetchDetails, chosen, world
    <3>4. QED BY <3>1, <3>2, <3>3 DEF SavesInv, withSaves
  <2>3. CASE SavesPlanned
    <3>1. /\ sync'.todo = sync.todo \cup sync.saves /\ sync'.keep = sync.keep
          /\ sync'.snap = sync.snap /\ sync'.found = sync.found
          /\ sync'.asked = sync.asked /\ sync'.saves = sync.saves
          /\ sync'.lacked = sync.lacked /\ sync'.pc = "upsert" /\ sync.pc = "saves"
          /\ sync.listed = sync.found
      BY <2>3 DEF SavesPlanned, TypeOK, GameSync
    <3>2. UNCHANGED <<options, clients, tracked, cloud>>
      BY <2>3 DEF SavesPlanned, chosen, world
    <3>3. \A f \in tracked \cap Save : f \in sync.saves \cup sync.lacked
      <4> SUFFICES ASSUME NEW f \in tracked \cap Save
                   PROVE  f \in sync.saves \cup sync.lacked
        OBVIOUS
      <4>1. PICK os \in GalaxyPlatform : Listing[f].by = ClientOf[os]
        BY DEF SavesInv, Listable
      <4>2. ClientOf[os] # NoClient
        BY <4>1, BaseAssumption, ClientAssumption
      <4>3. Listing[f].by \in sync.listed
        BY <3>1, <4>1, <4>2 DEF SavesInv
      <4>4. QED BY <3>1, <4>3 DEF SavesInv
    <3>4. QED BY <3>1, <3>2, <3>3 DEF SavesInv
  <2>4. CASE SavesUnknown
    <3>1. /\ sync'.todo = sync.todo /\ sync'.keep = tracked \cap Save
          /\ sync'.snap = sync.snap /\ sync'.found = sync.found
          /\ sync'.asked = sync.asked /\ sync'.saves = sync.saves
          /\ sync'.lacked = sync.lacked /\ sync'.pc = "upsert"
          /\ sync.pc \in {"clients", "saves"}
      BY <2>4 DEF SavesUnknown, AfterFailedListing, TypeOK, GameSync
    <3>2. UNCHANGED <<options, clients, tracked, cloud>>
      BY <2>4 DEF SavesUnknown, chosen, world
    <3>3. QED BY <3>1, <3>2 DEF SavesInv
  <2>5. CASE Upsert
    <3>1. PICK f \in First(sync.todo) :
             /\ tracked' = tracked \cup {f}
             /\ sync' = [sync EXCEPT !.todo = @ \ {f}, !.keep = @ \cup {f}]
      BY <2>5 DEF Upsert
    <3>2. /\ sync'.todo = sync.todo \ {f} /\ sync'.keep = sync.keep \cup {f}
          /\ sync'.snap = sync.snap /\ sync'.found = sync.found
          /\ sync'.asked = sync.asked /\ sync'.saves = sync.saves
          /\ sync'.listed = sync.listed
          /\ sync'.lacked = sync.lacked /\ sync'.pc = "upsert" /\ sync.pc = "upsert"
          /\ f \in sync.todo
      BY <2>5, <3>1 DEF Upsert, TypeOK, GameSync, First
    <3>3. UNCHANGED <<options, clients, cloud>>
      BY <2>5 DEF Upsert, chosen, world
    <3>4. QED BY <3>1, <3>2, <3>3 DEF SavesInv
  <2>6. CASE DropOthers \/ Interrupted
    BY <2>0, <2>6 DEF DropOthers, Interrupted, chosen
  <2>7. ASSUME NEW os \in GalaxyPlatform, NEW again \in BOOLEAN, FindClient(os, again)
        PROVE  SavesInv'
    <3>1. clients'[os] = ClientOf[os]
          /\ \A o \in GalaxyPlatform : clients'[o] \in {Unasked, ClientOf[o]}
      BY <2>7, ClientAssumption DEF FindClient, SavesInv, TypeOK
    <3>2. /\ sync'.asked = sync.asked \cup {os}
          /\ sync'.found = sync.found \cup ({ClientOf[os]} \ {NoClient})
          /\ sync'.todo = sync.todo /\ sync'.saves = sync.saves
          /\ sync'.listed = sync.listed /\ sync'.lacked = sync.lacked
          /\ sync.pc = "clients" /\ sync'.pc \in {"clients", "saves"}
          /\ sync'.pc = "saves" => sync'.asked = GalaxyPlatform
      BY <2>7, <3>1 DEF FindClient, TypeOK, GameSync
    <3>3. UNCHANGED <<tracked, cloud>>
      BY <2>7 DEF FindClient, world
    <3>4. sync'.found = {ClientOf[o] : o \in sync'.asked} \ {NoClient}
      BY <3>2 DEF SavesInv
    <3>5. QED BY <3>1, <3>2, <3>3, <3>4 DEF SavesInv
  <2>8. ASSUME NEW c \in Client, ListCloudSaves(c)
        PROVE  SavesInv'
    <3>1. /\ sync'.listed = sync.listed \cup {c}
          /\ sync'.saves = sync.saves \cup {f \in cloud : Listing[f].by = c}
          /\ sync'.asked = sync.asked /\ sync'.found = sync.found
          /\ sync'.todo = sync.todo /\ sync'.lacked = sync.lacked
          /\ sync.pc = "saves" /\ sync'.pc = "saves" /\ c \in sync.found
      BY <2>8 DEF ListCloudSaves, TypeOK, GameSync
    <3>2. UNCHANGED <<tracked, cloud, clients>>
      BY <2>8 DEF ListCloudSaves, world
    <3>3. \A f \in cloud : Listing[f].by = c => f \in Listable
      <4>1. \E os \in GalaxyPlatform : c = ClientOf[os]
        BY <3>1 DEF SavesInv
      <4>2. QED BY <4>1 DEF Listable, TypeOK
    <3>4. QED BY <3>1, <3>2, <3>3 DEF SavesInv
  <2>9. ASSUME NEW s \in NewSettings, ApplySettings(s)
        PROVE  SavesInv'
    <3>1. tracked' \subseteq tracked /\ UNCHANGED <<clients, options, cloud>>
      BY <2>9 DEF ApplySettings, Left, world
    <3>2. CASE sync' = NoSync
      BY <2>0, <3>1, <3>2
    <3>3. CASE sync' = sync
      BY <3>1, <3>3 DEF SavesInv
    <3>4. QED BY <2>9, <3>2, <3>3 DEF ApplySettings
  <2>10. ASSUME NEW o \in NewOptions, SetGameOptions(o)
         PROVE  SavesInv'
    <3>1. tracked' \subseteq tracked /\ UNCHANGED <<clients, sync, cloud>>
          /\ sync.pc \in {"idle", "fetch"}
      BY <2>10 DEF SetGameOptions, Left, world
    <3>2. QED BY <3>1 DEF SavesInv
  <2>11. ASSUME NEW f \in File, Publish(f)
         PROVE  SavesInv'
    <3>1. /\ sync'.todo = sync.todo /\ sync'.keep = sync.keep
          /\ sync'.snap = sync.snap /\ sync'.found = sync.found
          /\ sync'.asked = sync.asked /\ sync'.saves = sync.saves
          /\ sync'.listed = sync.listed /\ sync'.pc = sync.pc
          /\ sync.lacked \subseteq sync'.lacked
          /\ sync.pc # "idle" => Save \ cloud' \subseteq sync'.lacked
      BY <2>11 DEF Publish, TypeOK, GameSync
    <3>2. UNCHANGED <<tracked, clients, options>>
      BY <2>11 DEF Publish
    <3>3. QED BY <3>1, <3>2 DEF SavesInv
  <2>12. ASSUME NEW d \in Dlc, Buy(d)
         PROVE  SavesInv'
    BY <2>12 DEF Buy, chosen, SavesInv
  <2>13. CASE UNCHANGED vars
    BY <2>13 DEF vars, SavesInv
  <2>14. QED
    BY <2>1, <2>2, <2>3, <2>4, <2>5, <2>6, <2>7, <2>8, <2>9, <2>10, <2>11,
       <2>12, <2>13 DEF Next, SyncStep
<1>3. QED BY <1>1, <1>2, TypeCorrect, SyncInvariant, PTL DEF Spec

\* For any number of clients, whatever fails and whatever enters or leaves the
\* cloud while it is listed: a save that is backed up is forgotten only with the
\* wish for saves, or after the sync that forgets it saw the cloud without it.
THEOREM SavesStay == Spec => SavesSurvive
<1> DEFINE Survives ==
      \A f \in (tracked \ tracked') \cap Save :
         \/ "saves" \notin ForGame(settings', options').include
         \/ f \in sync.lacked
<1>1. TypeOK /\ SyncInv /\ SavesInv /\ [Next]_vars => [Survives]_vars
  <2> SUFFICES ASSUME TypeOK, SyncInv, SavesInv, Next,
                      NEW f \in (tracked \ tracked') \cap Save
      PROVE  \/ "saves" \notin ForGame(settings', options').include
             \/ f \in sync.lacked
    BY DEF vars
  <2>1. CASE \E s \in NewSettings : ApplySettings(s)
    BY <2>1, BaseAssumption DEF ApplySettings, Left, Unwanted, Save
  <2>2. CASE \E o \in NewOptions : SetGameOptions(o)
    BY <2>2, BaseAssumption DEF SetGameOptions, Left, Unwanted, Save
  <2>3. CASE DropOthers
    <3>1. /\ sync.pc = "upsert" /\ sync.todo = {} /\ f \notin sync.keep
          /\ UNCHANGED <<settings, options>>
      BY <2>3 DEF DropOthers
    <3>2. sync.snap = settings
      BY <3>1 DEF SyncInv
    <3>3. QED BY <3>1, <3>2 DEF SavesInv
  <2>4. tracked \subseteq tracked' \/ DropOthers
        \/ (\E s \in NewSettings : ApplySettings(s)) \/ (\E o \in NewOptions : SetGameOptions(o))
    BY DEF Next, SyncStep, StartSync, FetchDetails, SavesPlanned, SavesUnknown, Upsert,
       FindClient, ListCloudSaves, Interrupted, Publish, Buy
  <2>5. QED BY <2>1, <2>2, <2>3, <2>4
<1>2. QED BY <1>1, TypeCorrect, SyncInvariant, SavesInvariant, PTL DEF Spec, SavesSurvive
-----------------------------------------------------------------------------
(* An installer stays.                                                     *)

\* Of some listed files, one is listed first.
LEMMA OneIsFirst ==
    ASSUME NEW F \in SUBSET File, F # {}
    PROVE  First(F) # {}
<1>1. F \subseteq Nat
  BY ListingAssumption DEF File
<1>2. PICK f \in F : \A g \in F : <<g, f>> \notin OpToRel(<, Nat)
  BY <1>1, NatLessThanWellFounded, WFMin
<1>3. OpToRel(<, Nat) = {ss \in Nat \X Nat : ss[1] < ss[2]}
  BY Zenon DEF OpToRel
<1>4. \A g \in F : ~(g < f)
  BY <1>1, <1>2, <1>3
<1>5. \A g \in F : f <= g
  BY <1>1, <1>4
<1>6. QED BY <1>5 DEF First

\* With the fallback, something is chosen wherever something is listed.
LEMMA FallbackChooses ==
    ASSUME NEW F \in SUBSET File, F # {}, NEW s, s.fallback
    PROVE  ChooseLanguages(F, s) # {}
<1> DEFINE wanted == {f \in F : WantsLanguage(s, Listing[f].lang)}
           english == {f \in F : Listing[f].lang = English}
<1>1. First(IF english # {} THEN english ELSE F) # {}
  BY OneIsFirst
<1>2. QED BY <1>1 DEF ChooseLanguages, Fallback

\* Of a platform the settings choose and GOG lists an installer for, one is planned.
LEMMA InstallerIsPlanned ==
    ASSUME NEW F \in SUBSET File, NEW D, NEW t, NEW o, NEW os,
           ForGame(t, o).fallback, os \in ForGame(t, o).platforms,
           "installers" \in ForGame(t, o).include,
           OfKind(F, "installer", Base, os) # {}
    PROVE  Plan(F, D, t, o) \cap OfKind(F, "installer", Base, os) # {}
<1> DEFINE s == ForGame(t, o)
           F1 == OfKind(F, "installer", Base, os)
<1>1. F1 \in SUBSET File
  BY DEF OfKind
<1>2. ChooseLanguages(F1, s) # {} /\ ChooseLanguages(F1, s) \subseteq F1
  BY <1>1, FallbackChooses, ChooseFromListed
<1> HIDE DEF s
<1>3. ChooseLanguages(F1, s) \subseteq PlanFiles(F, Base, s)
  BY DEF PlanFiles, s
<1> HIDE DEF F1
<1>4. PlanFiles(F, Base, s) \subseteq Plan(F, D, t, o)
  BY DEF Plan, s
<1>5. QED BY <1>2, <1>3, <1>4 DEF F1

\* A change of languages spares a tracked installer in a selected one, or, if
\* there is none, all of them.
LEMMA ChangeLeavesInstaller ==
    ASSUME NEW T, NEW t, NEW o, NEW os,
           ForGame(t, o).fallback, os \in ForGame(t, o).platforms,
           "installers" \in ForGame(t, o).include,
           OfKind(T, "installer", Base, os) # {}
    PROVE  OfKind(Left(T, t, o), "installer", Base, os) # {}
<1> DEFINE s == ForGame(t, o)
           T1 == OfKind(T, "installer", Base, os)
<1>1. PICK f \in T1 :
         (\E g \in T1 : WantsLanguage(s, Listing[g].lang)) => WantsLanguage(s, Listing[f].lang)
  OBVIOUS
<1>2. /\ f \in T /\ Listing[f].kind = "installer" /\ Listing[f].product = Base
      /\ Listing[f].os = os
  BY DEF OfKind
<1>3. WantsLanguage(s, Listing[f].lang) \/ FallsBackTo(f, s, T)
  BY <1>1, <1>2 DEF FallsBackTo, TrackedLanguages, Languages
<1> HIDE DEF s
<1>4. ~Unwanted(f, t, o, T)
  BY <1>2, <1>3 DEF Unwanted, WantsPlatform, s
<1>5. QED BY <1>2, <1>4 DEF Left, OfKind

\* Nobody stores settings with the same plan while the game is synced: what a
\* sync has upserted would be dropped without ending it.
NoResave == "resave" \notin Ops

\* What is planned is tracked as soon as it is upserted, and stays until the
\* sync ends.
PlannedInv ==
    /\ sync.pc \in {"clients", "saves"} => sync.keep = {}
    /\ sync.pc \in {"clients", "saves", "upsert"} =>
         /\ Plan(sync.seen, sync.owned, sync.snap, options) \subseteq sync.todo \cup sync.keep
         /\ sync.keep \subseteq tracked

LEMMA PlannedInvariant ==
    ASSUME NoResave
    PROVE  Spec => []PlannedInv
<1>1. Init => PlannedInv
  BY DEF Init, PlannedInv, NoSync
<1>2. TypeOK /\ SyncInv /\ PlannedInv /\ [Next]_vars => PlannedInv'
  <2> SUFFICES ASSUME TypeOK, SyncInv, PlannedInv, [Next]_vars PROVE PlannedInv'
    OBVIOUS
  <2>0. ASSUME sync'.pc \in {"idle", "fetch"} PROVE PlannedInv'
    BY <2>0 DEF PlannedInv
  <2>1. CASE StartSync
    BY <2>0, <2>1 DEF StartSync, NoSync
  <2>2. CASE FetchDetails
    <3> DEFINE plan == Plan(catalogue, sync.owned, sync.snap, options)
    <3> HIDE DEF plan
    <3>1. /\ sync'.todo = plan /\ sync'.snap = sync.snap /\ sync'.keep = sync.keep
          /\ sync'.owned = sync.owned /\ sync'.seen = catalogue
      BY <2>2 DEF FetchDetails, TypeOK, GameSync, plan
    <3>2. UNCHANGED <<options, tracked>> /\ sync.keep = {}
      BY <2>2 DEF FetchDetails, chosen, SyncInv
    <3>3. Plan(sync'.seen, sync'.owned, sync'.snap, options') = plan
      BY <3>1, <3>2 DEF plan
    <3>4. QED BY <3>1, <3>2, <3>3 DEF PlannedInv
  <2>3. ASSUME /\ UNCHANGED options
               /\ sync'.snap = sync.snap /\ sync'.owned = sync.owned /\ sync'.seen = sync.seen
               /\ sync.pc \in {"clients", "saves", "upsert"}
               /\ sync.todo \cup sync.keep \subseteq sync'.todo \cup sync'.keep
               /\ sync'.keep \subseteq tracked'
               /\ sync'.pc \in {"clients", "saves"} => sync'.keep = {}
        PROVE  PlannedInv'
    BY <2>3 DEF PlannedInv
  <2>4. CASE SavesPlanned
    <3>1. /\ UNCHANGED <<options, tracked>>
          /\ sync' = [sync EXCEPT !.pc = "upsert", !.todo = @ \cup sync.saves]
          /\ sync.pc = "saves" /\ sync.keep = {}
      BY <2>4 DEF SavesPlanned, chosen, PlannedInv
    <3>2. QED BY <2>3, <3>1 DEF TypeOK, GameSync
  <2>5. CASE SavesUnknown
    <3>1. /\ UNCHANGED <<options, tracked>>
          /\ sync' = [sync EXCEPT !.pc = "upsert", !.keep = tracked \cap Save]
          /\ sync.pc \in {"clients", "saves"} /\ sync.keep = {}
      BY <2>5 DEF SavesUnknown, AfterFailedListing, chosen, PlannedInv
    <3>2. QED BY <2>3, <3>1 DEF TypeOK, GameSync
  <2>6. CASE Upsert
    <3>1. PICK f \in First(sync.todo) :
             /\ tracked' = tracked \cup {f}
             /\ sync' = [sync EXCEPT !.todo = @ \ {f}, !.keep = @ \cup {f}]
      BY <2>6 DEF Upsert
    <3>2. /\ UNCHANGED options /\ sync.pc = "upsert" /\ sync'.pc = "upsert"
          /\ sync'.todo = sync.todo \ {f} /\ sync'.keep = sync.keep \cup {f}
          /\ sync'.snap = sync.snap /\ sync'.owned = sync.owned /\ sync'.seen = sync.seen
          /\ sync.keep \subseteq tracked
      BY <2>6, <3>1 DEF Upsert, chosen, TypeOK, GameSync, PlannedInv
    <3>3. QED BY <2>3, <3>1, <3>2
  <2>7. ASSUME NEW os \in GalaxyPlatform, NEW again \in BOOLEAN, FindClient(os, again)
        PROVE  PlannedInv'
    <3>1. /\ UNCHANGED <<options, tracked>> /\ sync.pc = "clients" /\ sync.keep = {}
          /\ sync'.snap = sync.snap /\ sync'.owned = sync.owned /\ sync'.seen = sync.seen
          /\ sync'.todo = sync.todo /\ sync'.keep = sync.keep
      BY <2>7 DEF FindClient, chosen, TypeOK, GameSync, PlannedInv
    <3>2. QED BY <2>3, <3>1
  <2>8. ASSUME NEW c \in Client, ListCloudSaves(c)
        PROVE  PlannedInv'
    <3>1. /\ UNCHANGED <<options, tracked>> /\ sync.pc = "saves" /\ sync.keep = {}
          /\ sync'.snap = sync.snap /\ sync'.owned = sync.owned /\ sync'.seen = sync.seen
          /\ sync'.todo = sync.todo /\ sync'.keep = sync.keep
      BY <2>8 DEF ListCloudSaves, chosen, TypeOK, GameSync, PlannedInv
    <3>2. QED BY <2>3, <3>1
  <2>9. CASE DropOthers \/ Interrupted
    BY <2>0, <2>9 DEF DropOthers, Interrupted, NoSync
  <2>10. ASSUME NEW s \in NewSettings, ApplySettings(s)
         PROVE  PlannedInv'
    <3>1. sync'.pc = "idle"
      BY <2>10, NoResave DEF ApplySettings, NoResave, NoSync
    <3>2. QED BY <2>0, <3>1
  <2>11. ASSUME NEW o \in NewOptions, SetGameOptions(o)
         PROVE  PlannedInv'
    BY <2>0, <2>11 DEF SetGameOptions
  <2>12. ASSUME NEW f \in File, Publish(f)
         PROVE  PlannedInv'
    <3>1. /\ UNCHANGED <<options, tracked>>
          /\ sync'.snap = sync.snap /\ sync'.owned = sync.owned /\ sync'.seen = sync.seen
          /\ sync'.todo = sync.todo /\ sync'.keep = sync.keep /\ sync'.pc = sync.pc
      BY <2>12 DEF Publish, TypeOK, GameSync
    <3>2. QED BY <3>1 DEF PlannedInv
  <2>13. ASSUME NEW d \in Dlc, Buy(d)
         PROVE  PlannedInv'
    BY <2>13 DEF Buy, chosen, PlannedInv
  <2>14. CASE UNCHANGED vars
    BY <2>14 DEF vars, PlannedInv
  <2>15. QED
    BY <2>1, <2>2, <2>4, <2>5, <2>6, <2>7, <2>8, <2>9, <2>10, <2>11,
       <2>12, <2>13, <2>14 DEF Next, SyncStep
<1>3. QED BY <1>1, <1>2, TypeCorrect, SyncInvariant, PTL DEF Spec

\* For every listing and every choice of platforms and languages: with the
\* fallback a chosen platform keeps an installer across changes and syncs as
\* long as GOG lists one, provided no settings with the same plan are stored
\* while the game is synced.
THEOREM InstallersStay ==
    ASSUME NoResave
    PROVE  Spec => AnInstallerStays
<1> DEFINE Stays ==
      tracked' # tracked =>
       \A os \in Platform :
          LET before == OfKind(tracked, "installer", Base, os)
              after == OfKind(tracked', "installer", Base, os)
              s == ForGame(settings', options')
          IN  before # {} /\ after = {} /\ s.fallback /\ os \in s.platforms
              /\ "installers" \in s.include
              => /\ sync.pc = "upsert"
                 /\ OfKind(sync.seen, "installer", Base, os) = {}
<1>1. TypeOK /\ SyncInv /\ PlannedInv /\ [Next]_vars => [Stays]_vars
  <2> SUFFICES ASSUME TypeOK, SyncInv, PlannedInv, Next, NEW os \in Platform,
                      OfKind(tracked, "installer", Base, os) # {},
                      OfKind(tracked', "installer", Base, os) = {},
                      ForGame(settings', options').fallback,
                      os \in ForGame(settings', options').platforms,
                      "installers" \in ForGame(settings', options').include
      PROVE  /\ sync.pc = "upsert"
             /\ OfKind(sync.seen, "installer", Base, os) = {}
    BY DEF vars
  <2>1. CASE (\E s \in NewSettings : ApplySettings(s)) \/ (\E o \in NewOptions : SetGameOptions(o))
    <3>1. tracked' = Left(tracked, settings', options')
      BY <2>1 DEF ApplySettings, SetGameOptions
    <3>2. QED BY <3>1, ChangeLeavesInstaller
  <2>2. CASE DropOthers
    <3>1. /\ sync.pc = "upsert" /\ sync.todo = {} /\ tracked' = tracked \cap sync.keep
          /\ UNCHANGED <<settings, options>> /\ sync.snap = settings
      BY <2>2 DEF DropOthers, SyncInv
    <3>2. Plan(sync.seen, sync.owned, settings, options) \subseteq tracked'
      BY <3>1 DEF PlannedInv
    <3>3. ASSUME OfKind(sync.seen, "installer", Base, os) # {} PROVE FALSE
      <4>1. sync.seen \in SUBSET File
        BY DEF TypeOK, GameSync
      <4>2. Plan(sync.seen, sync.owned, settings, options)
              \cap OfKind(sync.seen, "installer", Base, os) # {}
        BY <3>1, <3>3, <4>1, InstallerIsPlanned
      <4>3. QED BY <3>2, <4>2 DEF OfKind
    <3>4. QED BY <3>1, <3>3
  <2>3. tracked \subseteq tracked' \/ DropOthers
        \/ (\E s \in NewSettings : ApplySettings(s)) \/ (\E o \in NewOptions : SetGameOptions(o))
    BY DEF Next, SyncStep, StartSync, FetchDetails, SavesPlanned, SavesUnknown, Upsert,
       FindClient, ListCloudSaves, Interrupted, Publish, Buy
  <2>4. QED BY <2>1, <2>2, <2>3 DEF OfKind
<1>2. QED BY <1>1, TypeCorrect, SyncInvariant, PlannedInvariant, PTL DEF Spec, AnInstallerStays
=============================================================================
