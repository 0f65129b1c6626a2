------------------------------ MODULE GamePlan ------------------------------
(***************************************************************************)
(* Which files of one game are wanted, decided twice: by the plan a sync   *)
(* makes from GOG's listing (internal/library/plan.go, saves.go and        *)
(* syncGame in sync.go), and by the rule a change of the settings or of    *)
(* the game's options drops tracked files by, which knows GOG's listing    *)
(* only through what is tracked (unwantedReason in settings.go).           *)
(*                                                                         *)
(* A file is its place in Listing, everything GOG may list for the game in *)
(* the order it lists it (the game first, and of each product installers,  *)
(* patches, extras and saves); an installer of several parts is one file.  *)
(* Languages and platforms are normalised already.  The game is one the    *)
(* settings download, and what of a change and a sync may overlap is in    *)
(* Settings: here a change is one step that stops the sync, and an edit of *)
(* the options waits for the game's lock.                                  *)
(***************************************************************************)
EXTENDS Naturals, Sequences

CONSTANTS
    Platform, Language,
    Order,         \* the orders the settings may name them in
    GalaxyPlatform, \* the platforms the builds of which are asked for
    English,       \* the language the fallback prefers
    Dlc,           \* the game's DLC; Base is the game itself
    Base,
    Client,        \* Galaxy clients, each with a cloud container of its own
    NoClient,      \* what is recorded of a platform whose builds name none
    Unasked,       \* nothing is recorded of a platform
    ClientOf,      \* the client GOG's build of each such platform names
    Listing,       \* everything GOG may list, in its order
    NewSettings,   \* what the settings may be
    NewOptions,    \* what the game's own options may be
    FirstCatalogue, FirstCloud, \* what GOG lists in the beginning
    MaxPublished,  \* how often GOG, or the account, may change
    Ops            \* "resave": settings with the same plan are stored during a sync

Content == {"installers", "dlc", "patches", "extras", "saves"}
Product == Dlc \cup {Base}
File == DOMAIN Listing

\* os and lang are Base for what has none; by is a save's client, Base for the rest.
Item == [kind: {"installer", "patch", "extra", "save"}, product: Product,
         os: Platform \cup {Base}, lang: Language \cup {Base}, by: Client \cup {Base}]

SettingsRecord == [platforms: SUBSET Platform, languages: SUBSET Language,
                   order: Order, fallback: BOOLEAN, include: SUBSET Content]

Save == {f \in File : Listing[f].kind = "save"}

ASSUME ListingAssumption == Listing \in Seq(Item)
ASSUME BaseAssumption ==
    /\ Base \notin Dlc \cup Platform \cup Language \cup Client
    /\ \A f \in Save : Listing[f].product = Base /\ Listing[f].by \in Client
    /\ \A f \in File \ Save : Listing[f].kind # "extra" => Listing[f].os \in Platform
ASSUME ClientAssumption ==
    /\ NoClient \notin Client /\ Unasked \notin Client \cup {NoClient}
    /\ GalaxyPlatform \subseteq Platform
    /\ ClientOf \in [GalaxyPlatform -> Client \cup {NoClient}]
ASSUME InputAssumption ==
    /\ NewSettings \subseteq SettingsRecord /\ NewSettings # {}
    /\ NewOptions \subseteq SUBSET Content
    /\ FirstCatalogue \subseteq File \ Save
    /\ FirstCloud \subseteq Save
    /\ MaxPublished \in Nat
    /\ Ops \subseteq {"resave"}

VARIABLES
    catalogue,  \* what GOG lists for the game and its DLC
    owned,      \* the DLC in the account
    cloud,      \* the saves in the cloud
    published,  \* how often GOG, or the account, changed
    fresh,      \* for the properties: GOG lists what the tracked files were planned from
    settings, options, \* the stored ones
    clients,    \* the table game_clients: the client recorded for each platform
    tracked,    \* the active rows
    sync        \* the sync of the game

vars == <<catalogue, owned, cloud, published, fresh, settings, options, clients,
          tracked, sync>>

\* snap are the settings the sync read, seen is what GOG listed for it, todo
\* the planned files it has yet to upsert and keep those it will leave active.
\* asked are the platforms whose client it knows, found those clients, listed
\* the ones it has listed the saves of.  lacked is for the properties: the
\* saves that were not in the cloud at some time since it began.
GameSync ==
    [pc: {"idle", "fetch", "clients", "saves", "upsert"}, snap: SettingsRecord,
     owned: SUBSET Dlc, seen: SUBSET File, todo: SUBSET File, keep: SUBSET File,
     asked: SUBSET GalaxyPlatform, found: SUBSET Client, listed: SUBSET Client,
     saves: SUBSET Save, lacked: SUBSET Save]

NoSync == [pc |-> "idle", snap |-> CHOOSE s \in NewSettings : TRUE, owned |-> {},
           seen |-> {}, todo |-> {}, keep |-> {}, asked |-> {}, found |-> {},
           listed |-> {}, saves |-> {}, lacked |-> {}]

TypeOK ==
    /\ catalogue \subseteq File \ Save
    /\ owned \subseteq Dlc
    /\ cloud \subseteq Save
    /\ published \in 0..MaxPublished
    /\ fresh \in BOOLEAN
    /\ settings \in SettingsRecord
    /\ options \subseteq Content
    /\ clients \in [GalaxyPlatform -> Client \cup {NoClient, Unasked}]
    /\ tracked \subseteq File
    /\ sync \in GameSync

Init ==
    /\ catalogue = FirstCatalogue
    /\ owned = Dlc
    /\ cloud = FirstCloud
    /\ published = 0
    /\ fresh = TRUE
    /\ settings \in NewSettings
    /\ options = {}
    /\ clients = [os \in GalaxyPlatform |-> Unasked]
    /\ tracked = {}
    /\ sync = NoSync

-----------------------------------------------------------------------------
(* The settings.                                                           *)

\* The platforms and languages are compared as they are listed: in another order
\* they are another plan, though it wants the same files.
SamePlan(s, o) == s = o

\* The settings as they apply to the game: switched on where it opted in.
ForGame(s, o) == [s EXCEPT !.include = @ \cup o]

WantsLanguage(s, l) == l \in s.languages
WantsPlatform(s, os) == os \in s.platforms

-----------------------------------------------------------------------------
(* The plan.                                                               *)

\* The files of F of one kind, product and platform.
OfKind(F, kind, p, os) ==
    {f \in F : /\ Listing[f].kind = kind /\ Listing[f].product = p
               /\ Listing[f].os = os}

Languages(F) == {Listing[f].lang : f \in F}

First(F) == {f \in F : \A g \in F : f <= g}

\* (mutant: without an English installer there is none to fall back on)
Fallback_english_only(F) == First({f \in F : Listing[f].lang = English})
\* What the fallback picks of F: the first English one, else the first.
Fallback(F) ==
    LET english == {f \in F : Listing[f].lang = English}
    IN  First(IF english # {} THEN english ELSE F)

\* The installers (or patches) of F, all of one platform, to download.
ChooseLanguages(F, s) ==
    LET wanted == {f \in F : WantsLanguage(s, Listing[f].lang)}
    IN  IF wanted # {} \/ ~s.fallback \/ F = {} THEN wanted ELSE Fallback(F)

\* (mutant: patches are picked like installers of their own)
ChoosePatches_by_themselves(F, p, os, s) ==
    ChooseLanguages(OfKind(F, "patch", p, os), s)
\* The patches of a platform follow the languages its installers are picked
\* in; where none is listed, they are picked like installers.
ChoosePatches(F, p, os, s) ==
    LET installers == OfKind(F, "installer", p, os)
        patches == OfKind(F, "patch", p, os)
        picked == Languages(ChooseLanguages(installers, s))
    IN  IF installers = {} THEN ChooseLanguages(patches, s)
        ELSE {f \in patches : Listing[f].lang \in picked}

\* One product's files.  A DLC's installers come with the DLC; the game's own
\* are a choice of their own.
PlanFiles(F, p, s) ==
    (IF p # Base \/ "installers" \in s.include
     THEN UNION {ChooseLanguages(OfKind(F, "installer", p, os), s) : os \in s.platforms}
     ELSE {})
    \cup (IF "patches" \in s.include
          THEN UNION {ChoosePatches(F, p, os, s) : os \in s.platforms} ELSE {})
    \cup (IF "extras" \in s.include
          THEN {f \in F : Listing[f].kind = "extra" /\ Listing[f].product = p} ELSE {})

\* The files of the game and of its owned DLC that should exist.
Plan(F, D, t, o) ==
    LET s == ForGame(t, o)
    IN  PlanFiles(F, Base, s)
        \cup (IF "dlc" \in s.include
              THEN UNION {PlanFiles(F, p, s) : p \in D} ELSE {})

-----------------------------------------------------------------------------
(* The rule files are dropped by.                                          *)

\* (mutant: whatever the platform)
TrackedLanguages_any_platform(T, kind, p, os) ==
    Languages({f \in T : Listing[f].kind = kind /\ Listing[f].product = p})
\* offeredLanguagesOf: the languages of the tracked files T of one kind.
TrackedLanguages(T, kind, p, os) == Languages(OfKind(T, kind, p, os))

\* The fallback keeps f, in a language s does not select: no selected one is
\* tracked for the product and platform.  For a patch the tracked installers
\* answer, if there are any.
FallsBackTo(f, s, T) ==
    LET i == Listing[f]
        kind == IF OfKind(T, "installer", i.product, i.os) # {} THEN "installer" ELSE i.kind
    IN  \A l \in TrackedLanguages(T, kind, i.product, i.os) : ~WantsLanguage(s, l)

\* unwantedReason, but for the selection: what s with the options o wants of
\* the tracked files T.
Unwanted(f, t, o, T) ==
    LET s == ForGame(t, o)
        i == Listing[f]
    IN  \/ i.product # Base /\ "dlc" \notin s.include
        \/ i.kind = "installer" /\ i.product = Base /\ "installers" \notin s.include
        \/ i.kind = "patch" /\ "patches" \notin s.include
        \/ i.kind = "extra" /\ "extras" \notin s.include
        \/ i.kind = "save" /\ "saves" \notin s.include
        \/ /\ i.kind \in {"installer", "patch"}
           /\ \/ ~WantsPlatform(s, i.os)
              \/ /\ ~WantsLanguage(s, i.lang)
                 /\ ~(s.fallback /\ FallsBackTo(f, s, T))

\* findUnwanted and dropFiles.
Left(T, t, o) == {f \in T : ~Unwanted(f, t, o, T)}

-----------------------------------------------------------------------------
(* A sync of the game.                                                     *)

world == <<catalogue, owned, cloud, published>>
chosen == <<settings, options, fresh>>

StartSync ==
    /\ sync.pc = "idle"
    /\ sync' = [NoSync EXCEPT !.pc = "fetch", !.snap = settings, !.owned = owned,
                              !.lacked = Save \ cloud]
    /\ UNCHANGED <<world, chosen, clients, tracked>>

\* ProductDetails is answered, and the game's lock is held from here on.
FetchDetails ==
    /\ sync.pc = "fetch"
    /\ LET plan == Plan(catalogue, sync.owned, sync.snap, options)
           withSaves == "saves" \in ForGame(sync.snap, options).include
       IN  sync' = [sync EXCEPT !.pc = IF withSaves THEN "clients" ELSE "upsert",
                                !.seen = catalogue, !.todo = plan]
    /\ UNCHANGED <<world, chosen, clients, tracked>>

\* gameClients, one platform: the recorded client, or GOG's answer, which is
\* asked for again after a while where there was none (again).
FindClient(os, again) ==
    /\ sync.pc = "clients" /\ os \notin sync.asked
    /\ clients' = IF clients[os] = Unasked \/ (again /\ clients[os] = NoClient)
                  THEN [clients EXCEPT ![os] = ClientOf[os]] ELSE clients
    /\ LET asked == sync.asked \cup {os}
       IN  sync' = [sync EXCEPT !.asked = asked,
                                !.found = @ \cup ({clients'[os]} \ {NoClient}),
                                !.pc = IF asked = GalaxyPlatform THEN "saves" ELSE "clients"]
    /\ UNCHANGED <<world, chosen, tracked>>

\* planSaves, one client's container.
ListCloudSaves(c) ==
    /\ sync.pc = "saves" /\ c \in sync.found \ sync.listed
    /\ sync' = [sync EXCEPT !.listed = @ \cup {c},
                            !.saves = @ \cup {f \in cloud : Listing[f].by = c}]
    /\ UNCHANGED <<world, chosen, clients, tracked>>

SavesPlanned ==
    /\ sync.pc = "saves" /\ sync.listed = sync.found
    /\ sync' = [sync EXCEPT !.pc = "upsert", !.todo = @ \cup sync.saves]
    /\ UNCHANGED <<world, chosen, clients, tracked>>

\* (mutant: what was listed is planned, the rest is not known)
AfterFailedListing_partial(s) == [s EXCEPT !.pc = "upsert", !.todo = @ \cup s.saves]
\* An error leaves all the saves there are as they are.
AfterFailedListing(s) == [s EXCEPT !.pc = "upsert", !.keep = tracked \cap Save]

\* GOG does not answer about a client or a container.
SavesUnknown ==
    /\ sync.pc = "clients" \/ (sync.pc = "saves" /\ sync.listed # sync.found)
    /\ sync' = AfterFailedListing(sync)
    /\ UNCHANGED <<world, chosen, clients, tracked>>

\* The next planned file, in the order of Listing.
Upsert ==
    /\ sync.pc = "upsert"
    /\ \E f \in First(sync.todo) :
           /\ tracked' = tracked \cup {f}
           /\ sync' = [sync EXCEPT !.todo = @ \ {f}, !.keep = @ \cup {f}]
    /\ UNCHANGED <<world, chosen, clients>>

\* DeactivateOtherFiles
DropOthers ==
    /\ sync.pc = "upsert" /\ sync.todo = {}
    /\ tracked' = tracked \cap sync.keep
    /\ sync' = NoSync
    /\ fresh' = (fresh \/ sync.seen = catalogue)
    /\ UNCHANGED <<world, settings, options, clients>>

\* A request to GOG or a statement fails, or the sync is cancelled.
Interrupted ==
    /\ sync.pc # "idle"
    /\ sync' = NoSync
    /\ UNCHANGED <<world, chosen, clients, tracked>>

-----------------------------------------------------------------------------
(* The user, and GOG.                                                      *)

\* ApplySettings stops the sync if the plan becomes another one, and drops
\* files by its rule in any case.
ApplySettings(s) ==
    /\ SamePlan(settings, s) /\ sync.pc # "idle" => "resave" \in Ops
    /\ tracked' = Left(tracked, s, options)
    /\ settings' = s
    /\ sync' = IF SamePlan(settings, s) THEN sync ELSE NoSync
    /\ UNCHANGED <<world, fresh, options, clients>>

\* The game's lock is free.
SetGameOptions(o) ==
    /\ sync.pc \in {"idle", "fetch"}
    /\ tracked' = Left(tracked, settings, o)
    /\ options' = o
    /\ UNCHANGED <<world, fresh, settings, clients, sync>>

\* GOG lists another file, or no longer lists one.
Publish(f) ==
    /\ published < MaxPublished
    /\ published' = published + 1
    /\ IF f \in Save
       THEN /\ cloud' = (cloud \ {f}) \cup ({f} \ cloud)
            /\ UNCHANGED <<catalogue, fresh>>
       ELSE /\ catalogue' = (catalogue \ {f}) \cup ({f} \ catalogue)
            /\ fresh' = FALSE
            /\ UNCHANGED cloud
    /\ sync' = IF sync.pc = "idle" THEN sync
               ELSE [sync EXCEPT !.lacked = @ \cup (Save \ cloud')]
    /\ UNCHANGED <<owned, settings, options, clients, tracked>>

\* A DLC enters or leaves the account.
Buy(d) ==
    /\ published < MaxPublished
    /\ published' = published + 1
    /\ owned' = (owned \ {d}) \cup ({d} \ owned)
    /\ UNCHANGED <<catalogue, cloud, chosen, clients, tracked, sync>>

SyncStep ==
    \/ StartSync \/ FetchDetails \/ SavesPlanned \/ SavesUnknown
    \/ Upsert \/ DropOthers
    \/ \E os \in GalaxyPlatform, again \in BOOLEAN : FindClient(os, again)
    \/ \E c \in Client : ListCloudSaves(c)

Next ==
    \/ SyncStep
    \/ Interrupted
    \/ \E s \in NewSettings : ApplySettings(s)
    \/ \E o \in NewOptions : SetGameOptions(o)
    \/ \E f \in File : Publish(f)
    \/ \E d \in Dlc : Buy(d)

Spec == Init /\ [][Next]_vars

-----------------------------------------------------------------------------
(* Properties.                                                             *)

\* The step is a change: a sync that drops files ends with it.
ByChange == sync' = sync \/ <<settings, options>>' # <<settings, options>>

\* A change of the settings or the options drops, and may delete, no file that
\* the next sync would plan again, as long as GOG lists what the files were
\* planned from: unwantedReason guesses from the tracked files what Plan decides
\* from the listing, and the user only confirmed what is not wanted any more.
ChangeSparesWanted ==
    [][\A f \in tracked \ tracked' :
          ByChange /\ fresh
          => /\ f \notin Plan(catalogue, owned, settings', options')
             /\ f \in Save => "saves" \notin ForGame(settings', options').include]_vars

\* The other way round: what a sync that was not interrupted leaves tracked is
\* nothing a change would drop.  Storing the same settings once more, which
\* goes through the same rule, takes nothing away.
SyncedIsWanted ==
    [][sync.pc = "upsert" /\ DropOthers
       => \A f \in tracked' : ~Unwanted(f, settings, options, tracked')]_vars

\* With the fallback, a chosen platform that has an installer keeps one: it is
\* not lost to a change of the languages, or to a sync, unless GOG listed no
\* installer for the platform any more.  Settings that leave the plan as it is
\* and are stored during a sync break this: see the README, section 3.
AnInstallerStays ==
    [][tracked' # tracked =>
       \A os \in Platform :
          LET before == OfKind(tracked, "installer", Base, os)
              after == OfKind(tracked', "installer", Base, os)
              s == ForGame(settings', options')
          IN  before # {} /\ after = {} /\ s.fallback /\ os \in s.platforms
              /\ "installers" \in s.include
              => /\ sync.pc = "upsert"
                 /\ OfKind(sync.seen, "installer", Base, os) = {}]_vars

\* A save that is backed up is forgotten only after it left the cloud, or with
\* the wish for saves: a listing that fails, for one client of several even,
\* says nothing about what is gone.
SavesSurvive ==
    [][\A f \in (tracked \ tracked') \cap Save :
          \/ "saves" \notin ForGame(settings', options').include
          \/ f \in sync.lacked]_vars
=============================================================================
