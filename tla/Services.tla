------------------------------ MODULE Services ------------------------------
(***************************************************************************)
(* The parts around the trading desk, checked in one run: the event        *)
(* kernel, the order-book feed, the supervisor, the setup wizard, the      *)
(* storing of a setup, the updater, the chat and the memory vault.  They   *)
(* share no state in the program.  "part" says which one an execution is   *)
(* about; the variables of the others keep the values they are given.      *)
(***************************************************************************)
EXTENDS Setup

CONSTANTS
    Topics, Handlers, MaxEvents, MaxTime,                         \* EventKernel
    Levels, MaxU, MaxBuffer,                                      \* BookFeed
    Components, MaxRestarts, BaseBackoff, Factor, MaxBackoff,     \* Supervisor
    MaxBack,                                                      \* Wizard
    Procs, MaxTag, MaxBuilds, MaxRuns,                            \* Updater
    Backends, MaxTurns, MaxAsks, MaxAtOnce,                       \* ChatSession
    Callers, Symbols, Setups, MaxRows                             \* MemoryVault

VARIABLES
    part,
    queue, subscribers, frames, dispatching, now, cache,          \* EventKernel
    published, due, log, crashed,
    venue, levels, lastU, ready, buffer, absorbed, reconciled,    \* BookFeed
    at, restarts, backoffs, lastErr, cancelled, results,          \* Supervisor
    returned,
    step, llm, llmKey, llmKeyPhase, telegram, brokerKey,          \* Wizard
    brokerSecret, brokerSecretPhase, intakeIdx, answers, input,
    result, done, voiceEnabled, quit, backs,
    windows, tagOf, zip, sums, latest, exe, old, tmp, upc,        \* Updater
    version, shown, target, got, runs, installs, overlapped,
    killed,
    asked, thinking, answered, turns, says, looked, prompt,       \* ChatSession
    failovers, talkedOver,
    rows, forgotten, notes, lists, vpc, mem, todo, read, lock,    \* MemoryVault
    recorded, torn

kernelVars == <<queue, subscribers, frames, dispatching, now, cache,
                published, due, log, crashed>>
feedVars == <<venue, levels, lastU, ready, buffer, absorbed,
              reconciled>>
supervisionVars == <<at, restarts, backoffs, lastErr, cancelled,
                     results, returned>>
wizardVars == <<step, llm, llmKey, llmKeyPhase, telegram, brokerKey,
                brokerSecret, brokerSecretPhase, intakeIdx, answers,
                input, result, done, voiceEnabled, quit, backs>>
updateVars == <<windows, tagOf, zip, sums, latest, exe, old, tmp, upc,
                version, shown, target, got, runs, installs, overlapped,
                killed>>
chatVars == <<asked, thinking, answered, turns, says, looked, prompt,
              failovers, talkedOver>>
vaultVars == <<rows, forgotten, notes, lists, vpc, mem, todo, read,
               lock, recorded, torn>>
servicesVars == <<part, kernelVars, feedVars, supervisionVars, wizardVars,
                  vars, updateVars, chatVars, vaultVars>>

Kernel == INSTANCE EventKernel
Feed == INSTANCE BookFeed
Supervision == INSTANCE Supervisor
Wizards == INSTANCE Wizard
Update == INSTANCE Updater WITH pc <- upc
Chat == INSTANCE ChatSession WITH
    at <- says, shown <- answered, loaded <- looked, overlapped <- talkedOver
Vault == INSTANCE MemoryVault WITH pc <- vpc

(* The mutex's "nobody" is not a goroutine. *)
ASSUME VaultAssumption == Vault!Free \notin Callers

(* The size of the feed's buffer. *)
ASSUME FeedAssumption == MaxBuffer \in Nat

(* What Policy.normalize leaves of a policy. *)
ASSUME SupervisionAssumption ==
    MaxRestarts \in Nat /\ {BaseBackoff, Factor, MaxBackoff} \subseteq Nat \ {0}

(* There is a release, and a build installed by hand. *)
ASSUME UpdateAssumption == MaxTag \in Nat \ {0} /\ MaxBuilds \in Nat \ {0}

(* The bounds of the chat are numbers. *)
ASSUME ChatAssumption == MaxTurns \in Nat /\ MaxAsks \in Nat

(* The values of the variables of the parts that do not run. *)
NoKernel == /\ queue = <<>> /\ subscribers = <<>> /\ frames = <<>>
            /\ dispatching = FALSE /\ now = 0 /\ cache = <<>> /\ published = 0
            /\ due = <<>> /\ log = <<>> /\ crashed = FALSE
NoFeed == /\ venue = <<>> /\ levels = <<>> /\ lastU = 0 /\ ready = FALSE
          /\ buffer = <<>> /\ absorbed = {} /\ reconciled = 0
NoSupervision == /\ at = [c \in Components |-> "recovered"]
                 /\ restarts = [c \in Components |-> 0] /\ backoffs = <<>>
                 /\ lastErr = <<>> /\ cancelled = FALSE /\ results = Components
                 /\ returned = TRUE
NoWizards == /\ step = "" /\ llm = "" /\ llmKey = "" /\ llmKeyPhase = FALSE
             /\ telegram = "" /\ brokerKey = "" /\ brokerSecret = ""
             /\ brokerSecretPhase = FALSE /\ intakeIdx = 0 /\ answers = <<>>
             /\ input = "" /\ result = <<>> /\ done = FALSE
             /\ voiceEnabled = FALSE /\ quit = FALSE /\ backs = 0
NoSetups == /\ keyringUp = FALSE /\ keyring = 0 /\ file = 0 /\ filePass = "" /\ config = Absent
            /\ pc = "idle" /\ setup = 0 /\ pass = "" /\ attempts = 0 /\ terminal = FALSE
            /\ loaded = Nothing /\ savedTo = <<>>
NoUpdate == /\ windows = FALSE /\ tagOf = <<>> /\ zip = <<>> /\ sums = <<>>
            /\ latest = 0 /\ exe = 0 /\ old = 0 /\ tmp = <<>> /\ upc = <<>>
            /\ version = <<>> /\ shown = <<>> /\ target = <<>> /\ got = <<>>
            /\ runs = 0 /\ installs = {} /\ overlapped = FALSE
            /\ killed = FALSE
NoChat == /\ asked = 0 /\ thinking = FALSE /\ answered = <<>>
          /\ turns = <<>> /\ says = <<>> /\ looked = <<>> /\ prompt = <<>>
          /\ failovers = <<>> /\ talkedOver = FALSE
NoVault == /\ rows = <<>> /\ forgotten = {} /\ notes = <<>> /\ lists = <<>>
           /\ vpc = <<>> /\ mem = <<>> /\ todo = <<>> /\ read = <<>>
           /\ lock = "" /\ recorded = {} /\ torn = {}

ServicesInit ==
    \/ /\ part = "kernel" /\ Kernel!Init
       /\ NoFeed /\ NoSupervision /\ NoWizards /\ NoSetups /\ NoUpdate
       /\ NoChat /\ NoVault
    \/ /\ part = "feed" /\ Feed!Init
       /\ NoKernel /\ NoSupervision /\ NoWizards /\ NoSetups /\ NoUpdate
       /\ NoChat /\ NoVault
    \/ /\ part = "supervision" /\ Supervision!Init
       /\ NoKernel /\ NoFeed /\ NoWizards /\ NoSetups /\ NoUpdate
       /\ NoChat /\ NoVault
    \/ /\ part = "wizard" /\ Wizards!Init
       /\ NoKernel /\ NoFeed /\ NoSupervision /\ NoSetups /\ NoUpdate
       /\ NoChat /\ NoVault
    \/ /\ part = "setup" /\ Init
       /\ NoKernel /\ NoFeed /\ NoSupervision /\ NoWizards /\ NoUpdate
       /\ NoChat /\ NoVault
    \/ /\ part = "update" /\ Update!Init
       /\ NoKernel /\ NoFeed /\ NoSupervision /\ NoWizards /\ NoSetups
       /\ NoChat /\ NoVault
    \/ /\ part = "chat" /\ Chat!Init
       /\ NoKernel /\ NoFeed /\ NoSupervision /\ NoWizards /\ NoSetups
       /\ NoUpdate /\ NoVault
    \/ /\ part = "vault" /\ Vault!Init
       /\ NoKernel /\ NoFeed /\ NoSupervision /\ NoWizards /\ NoSetups
       /\ NoUpdate /\ NoChat

ServicesNext ==
    \/ /\ part = "kernel" /\ Kernel!Next
       /\ UNCHANGED <<part, feedVars, supervisionVars, wizardVars, vars,
                      updateVars, chatVars, vaultVars>>
    \/ /\ part = "feed" /\ Feed!Next
       /\ UNCHANGED <<part, kernelVars, supervisionVars, wizardVars, vars,
                      updateVars, chatVars, vaultVars>>
    \/ /\ part = "supervision" /\ Supervision!Next
       /\ UNCHANGED <<part, kernelVars, feedVars, wizardVars, vars,
                      updateVars, chatVars, vaultVars>>
    \/ /\ part = "wizard" /\ Wizards!Next
       /\ UNCHANGED <<part, kernelVars, feedVars, supervisionVars, vars,
                      updateVars, chatVars, vaultVars>>
    \/ /\ part = "setup" /\ Next
       /\ UNCHANGED <<part, kernelVars, feedVars, supervisionVars,
                      wizardVars, updateVars, chatVars, vaultVars>>
    \/ /\ part = "update" /\ Update!Next
       /\ UNCHANGED <<part, kernelVars, feedVars, supervisionVars,
                      wizardVars, vars, chatVars, vaultVars>>
    \/ /\ part = "chat" /\ Chat!Next
       /\ UNCHANGED <<part, kernelVars, feedVars, supervisionVars,
                      wizardVars, vars, updateVars, vaultVars>>
    \/ /\ part = "vault" /\ Vault!Next
       /\ UNCHANGED <<part, kernelVars, feedVars, supervisionVars,
                      wizardVars, vars, updateVars, chatVars>>

(* Only the supervisor's fairness is needed: the others promise no progress. *)
ServicesSpec == ServicesInit /\ [][ServicesNext]_servicesVars /\ Supervision!Fairness

-----------------------------------------------------------------------------
(***************************************************************************)
(* Events are handled in the order they were published, by every handler   *)
(* due, once, and a quote's handler reads that quote (EventKernel).        *)
(***************************************************************************)
HandledInOrder == part = "kernel" => Kernel!HandledInOrder

(***************************************************************************)
(* The book is the venue's book as of its last update, and every update it *)
(* never saw was announced (BookFeed).                                     *)
(***************************************************************************)
BookFollowsVenue == part = "feed" => Feed!BookIsVenueBook /\ Feed!NothingSkippedSilently

(***************************************************************************)
(* Every supervised component settles within its restarts, and a cancelled *)
(* SuperviseAll returns (Supervisor).                                      *)
(***************************************************************************)
SupervisionSettles == Supervision!SupervisionSettles

(***************************************************************************)
(* A finished setup is whole: its key, its secret and its answers belong   *)
(* together (Wizard).                                                      *)
(***************************************************************************)
SetupIsWhole == part = "wizard" => Wizards!SetupIsWhole

(***************************************************************************)
(* What is installed was published whole under the tag agreed to, and a    *)
(* failed update leaves an executable (Updater).                           *)
(***************************************************************************)
BinarySurvives == part = "update" => Update!BinarySurvives

(***************************************************************************)
(* The history is bounded, and threaded while the owner waits for each     *)
(* answer (ChatSession).                                                   *)
(***************************************************************************)
ChatStaysThreaded == part = "chat" => Chat!ChatStaysThreaded

(***************************************************************************)
(* Every memory that was recorded is in the link graph, with its own       *)
(* symbol and setup (MemoryVault).                                         *)
(***************************************************************************)
VaultFollowsStore == part = "vault" => Vault!VaultFollowsStore
=============================================================================
