-------------------------------- MODULE Setup --------------------------------
(***************************************************************************)
(* What a finished wizard leaves on disk and what the next launch finds    *)
(* (cmd/bucks/boot.go, main.go, passphrase.go, internal/secrets).  The     *)
(* secrets go to the operating system's keychain if it works at that       *)
(* moment, else to an encrypted file; the playbook goes to the plain       *)
(* config, whose existence is the sign of a completed setup.               *)
(***************************************************************************)
EXTENDS Integers

CONSTANTS
    Passphrases,
    MaxAttempts,    \* maxPassphraseAttempts
    MaxSetups       \* bound: wizards finished

ASSUME SetupAssumption == MaxSetups \in Nat

VARIABLES
    keyringUp,      \* external: the keychain works now
    keyring,        \* the setup whose secrets it holds, 0 for none
    file, filePass, \* the same for secrets.age, and what unlocks it
    config,         \* the setup bucks.yaml holds, or Absent, or Partial
    pc,             \* where the one running process is
    setup,          \* the latest setup a wizard finished
    pass,           \* the passphrase the process uses, "" for none
    attempts,       \* of the passphrase prompt
    terminal,       \* a human is attached
    loaded,         \* the setup a launch opened: [config, secrets, from]
    savedTo         \* history: setup -> backend that took its secrets

vars == <<keyringUp, keyring, file, filePass, config, pc, setup, pass, attempts,
          terminal, loaded, savedTo>>
disk == <<keyring, file, filePass, savedTo>>

Absent == 0
Partial == MaxSetups + 1        \* truncated: it fails to parse or to validate
Nothing == [config |-> 0, secrets |-> 0, from |-> "none"]

Init == /\ keyringUp \in BOOLEAN
        /\ keyring = 0 /\ file = 0 /\ filePass = "" /\ config = Absent
        /\ pc = "idle" /\ setup = 0 /\ pass = "" /\ attempts = 0 /\ terminal = FALSE
        /\ loaded = Nothing
        /\ savedTo = [s \in 1..MaxSetups |-> "none"]

configExists == config # Absent

(* run: the dashboard on a saved setup, else the wizard; without a human   *)
(* the daemon or the smoke test.  The environment may hold a passphrase.   *)
Launch(env, human) ==
    /\ pc = "idle"
    /\ pass' = env /\ attempts' = 0 /\ terminal' = human
    /\ pc' = IF configExists \/ ~human THEN "load" ELSE "wizard"
    /\ UNCHANGED <<keyringUp, disk, config, setup, loaded>>

WizardEnds == /\ pc = "wizard"
              /\ \/ pc' = "idle" /\ UNCHANGED setup         \* quit: nothing saved
                 \/ /\ setup < MaxSetups
                    /\ setup' = setup + 1 /\ pc' = "save"
              /\ UNCHANGED <<keyringUp, disk, config, pass, attempts, terminal, loaded>>

(* secrets.Open: the keychain if its probe works, else the file. *)
PassphraseRequired == ~keyringUp /\ pass = ""

(* SaveSetup opens the store and saves the secrets, which may fail. *)
SaveSecrets ==
    /\ pc = "save"
    /\ \/ /\ PassphraseRequired
          /\ pc' = "choose" /\ UNCHANGED disk
       \/ /\ keyringUp
          /\ keyring' = setup /\ savedTo' = [savedTo EXCEPT ![setup] = "keyring"]
          /\ pc' = "secretsSaved" /\ UNCHANGED <<file, filePass>>
       \/ /\ ~keyringUp /\ pass # ""
          /\ file' = setup /\ filePass' = pass
          /\ savedTo' = [savedTo EXCEPT ![setup] = "file"]
          /\ pc' = "secretsSaved" /\ UNCHANGED keyring
       \/ /\ ~PassphraseRequired
          /\ pc' = "idle" /\ UNCHANGED disk
    /\ UNCHANGED <<keyringUp, config, setup, pass, attempts, terminal, loaded>>

(* promptNewPassphrase, then the save is tried again. *)
ChoosePassphrase(first, second) ==
    /\ pc = "choose"
    /\ IF first = second /\ first # ""
       THEN pass' = first /\ pc' = "save" /\ UNCHANGED attempts
       ELSE /\ attempts' = attempts + 1
            /\ pc' = IF attempts' = MaxAttempts THEN "idle" ELSE pc
            /\ UNCHANGED pass
    /\ UNCHANGED <<keyringUp, disk, config, setup, terminal, loaded>>

BugSecretsStored == pc \in {"save", "secretsSaved"}     \* mutant: the config goes first
SecretsStored == pc = "secretsSaved"

(* os.WriteFile creates and truncates the config, then writes it. *)
CreateConfig ==
    /\ SecretsStored
    /\ \/ config' = Partial /\ pc' = "writing"
       \/ pc' = "idle" /\ UNCHANGED config
    /\ UNCHANGED <<keyringUp, disk, setup, pass, attempts, terminal, loaded>>

WriteConfig ==
    /\ pc = "writing"
    /\ config' \in {setup, Partial}             \* written, or the disk is full
    /\ pc' = "idle"
    /\ UNCHANGED <<keyringUp, disk, setup, pass, attempts, terminal, loaded>>

(* LoadSetup: config, store, secrets; each may refuse. *)
Loads(secrets, from) == /\ pc' = "open"
                        /\ loaded' = [config |-> config, secrets |-> secrets, from |-> from]

Unlocks == file # 0 /\ filePass = pass
Readable == config \in 1..MaxSetups
Load ==
    /\ pc = "load"
    /\ \/ /\ ~Readable
          /\ pc' = "idle" /\ UNCHANGED loaded
       \/ /\ Readable /\ keyringUp
          /\ IF keyring # 0 THEN Loads(keyring, "keyring") ELSE pc' = "idle" /\ UNCHANGED loaded
       \/ /\ Readable /\ PassphraseRequired
          /\ pc' = IF terminal THEN "unlock" ELSE "idle"
          /\ UNCHANGED loaded
       \/ /\ Readable /\ ~keyringUp /\ pass # ""
          /\ IF Unlocks THEN Loads(file, "file") ELSE pc' = "idle" /\ UNCHANGED loaded
    /\ UNCHANGED <<keyringUp, disk, config, setup, pass, attempts, terminal>>

(* promptUnlockPassphrase: once, blank entries are asked again. *)
UnlockPassphrase(entry) ==
    /\ pc = "unlock"
    /\ IF entry # ""
       THEN pass' = entry /\ pc' = "load" /\ UNCHANGED attempts
       ELSE /\ attempts' = attempts + 1
            /\ pc' = IF attempts' = MaxAttempts THEN "idle" ELSE pc
            /\ UNCHANGED pass
    /\ UNCHANGED <<keyringUp, disk, config, setup, terminal, loaded>>

(* The process ends, or is killed at any moment. *)
Ends == /\ pc # "idle"
        /\ pc' = "idle" /\ loaded' = Nothing
        /\ UNCHANGED <<keyringUp, disk, config, setup, pass, attempts, terminal>>

KeyringChanges == keyringUp' = ~keyringUp /\ UNCHANGED <<disk, config, pc, setup, pass,
                                                         attempts, terminal, loaded>>

(* External: to start over the owner deletes the config. *)
OwnerStartsOver == /\ pc = "idle" /\ configExists
                   /\ config' = Absent
                   /\ UNCHANGED <<keyringUp, disk, pc, setup, pass, attempts, terminal, loaded>>

Entries == Passphrases \cup {""}
Next == \/ \E e \in Entries, human \in BOOLEAN : Launch(e, human)
        \/ WizardEnds \/ SaveSecrets
        \/ \E e, f \in Entries : ChoosePassphrase(e, f)
        \/ CreateConfig \/ WriteConfig
        \/ Load
        \/ \E e \in Entries : UnlockPassphrase(e)
        \/ Ends \/ KeyringChanges \/ OwnerStartsOver

Spec == Init /\ [][Next]_vars

-----------------------------------------------------------------------------
(***************************************************************************)
(* A playbook on disk always has its secrets in the backend that took them *)
(* when it was saved, whatever failed or was killed on the way; and what a *)
(* launch opens is one setup, unless the keychain came or went since: then *)
(* the other backend may answer with the secrets of an earlier setup.      *)
(***************************************************************************)
SetupsAreNotMixed ==
    /\ config \in 1..MaxSetups =>
           /\ savedTo[config] \in {"keyring", "file"}
           /\ config = IF savedTo[config] = "keyring" THEN keyring ELSE file
    /\ pc = "open" /\ loaded.from = savedTo[loaded.config] => loaded.secrets = loaded.config
    /\ pc = "open" /\ loaded.from = "file" => pass = filePass

(***************************************************************************)
(* "NO failure path (disk-full, EIO, cancel) can leave an orphan config    *)
(* that claims a completed setup the next launch can't load" (boot.go).    *)
(***************************************************************************)
NoOrphanConfig == pc = "idle" => config # Partial
=============================================================================
