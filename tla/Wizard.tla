------------------------------- MODULE Wizard -------------------------------
(***************************************************************************)
(* The first-run wizard (internal/tui/wizard.go): a pure state machine fed *)
(* one key at a time.  Prompts nest (an API key under a backend, a secret  *)
(* under a broker key, questions under the intake), Esc goes back through  *)
(* them, and what was accepted earlier stays while the owner goes back and *)
(* forth.  The owner's typing is one step: a whole line of the prompt.     *)
(***************************************************************************)
EXTENDS Integers, SequencesExt

CONSTANTS
    MaxBack         \* bound: Esc presses

VARIABLES
    step,
    llm,
    llmKey,         \* the pasted key, named by the backend it was pasted for
    llmKeyPhase,
    telegram, brokerKey,
    brokerSecret,   \* the secret, named by the broker key it was entered after
    brokerSecretPhase,
    intakeIdx, answers,
    input,
    result, done,
    voiceEnabled,
    quit,
    backs           \* Esc presses so far

accepted == <<llm, llmKey, telegram, brokerKey, brokerSecret, answers, voiceEnabled>>
vars == <<step, accepted, llmKeyPhase, brokerSecretPhase, intakeIdx, input,
          result, done, quit, backs>>

stepOrder == <<"Welcome", "Telegram", "LLM", "Broker", "Intake", "Safety", "Done">>
Pos(s) == CHOOSE i \in DOMAIN stepOrder : stepOrder[i] = s

LLMChoices == {"oauth-gpt", "cloud-key", "both", "nemotron-free"}
BugNeedsKey(c) == c \in {"cloud-key", "nemotron-free"}  \* mutant: "both" forgotten
NeedsKey(c) == c \in {"cloud-key", "both", "nemotron-free"}

(* The intake: a required question and two risk knobs that may stay blank. *)
Questions == <<"capital", "risk", "loss">>
None == "none"
Blank == ""                                     \* an empty line
Valid(q, raw) == raw # "bad" /\ (q = "capital" => raw # Blank)

(* playbook.BuildPlaybook: every answer valid, and the day's loss budget   *)
(* covers one trade.                                                       *)
Buildable(a) == /\ \A i \in DOMAIN Questions : a[Questions[i]] # None /\ Valid(Questions[i], a[Questions[i]])
                /\ ~(a["risk"] = "high" /\ a["loss"] = "low")

(* The lines an owner may type: malformed ones are too short or no number. *)
Lines == CASE step = "Telegram" -> {"bad", "token"}
           [] step = "LLM" -> {"key"}
           [] step = "Broker" -> {"bad", "old", "new"}
           [] step = "Intake" -> {"bad", "low", "high"}
           [] step \in {"Welcome", "Safety", "Done"} -> {}

Typing == step \in {"Telegram", "Broker", "Intake"} \/ llmKeyPhase

Init == /\ step = "Welcome"
        /\ llm = "oauth-gpt" /\ llmKey = None /\ llmKeyPhase = FALSE
        /\ telegram = None
        /\ brokerKey = None /\ brokerSecret = None /\ brokerSecretPhase = FALSE
        /\ intakeIdx = 1 /\ answers = [q \in ToSet(Questions) |-> None]
        /\ input = Blank /\ result = <<>> /\ done = FALSE
        /\ voiceEnabled = FALSE /\ quit = FALSE /\ backs = 0

(* advance: strictly one step forward, with a clean line. *)
Advance == step' = stepOrder[Pos(step) + 1] /\ input' = Blank
Stay == UNCHANGED step

Type == /\ Typing /\ input = Blank
        /\ input' \in Lines
        /\ UNCHANGED <<step, accepted, llmKeyPhase, brokerSecretPhase, intakeIdx,
                       result, done, backs>>

Erase == /\ Typing /\ input # Blank
         /\ input' = Blank
         /\ UNCHANGED <<step, accepted, llmKeyPhase, brokerSecretPhase, intakeIdx,
                        result, done, backs>>

EnterWelcome ==
    /\ step = "Welcome"
    /\ voiceEnabled' \in BOOLEAN                \* 'v' toggles before the Enter
    /\ Advance
    /\ UNCHANGED <<llm, llmKey, telegram, brokerKey, brokerSecret, answers, llmKeyPhase,
                   brokerSecretPhase, intakeIdx, result, done, backs>>

EnterTelegram ==
    /\ step = "Telegram" /\ input \notin {Blank, "bad"}
    /\ telegram' = input
    /\ Advance
    /\ UNCHANGED <<llm, llmKey, brokerKey, brokerSecret, answers, voiceEnabled, llmKeyPhase,
                   brokerSecretPhase, intakeIdx, result, done, backs>>

(* A digit picks the backend; Enter opens the key prompt or advances. *)
EnterLLM(choice) ==
    /\ step = "LLM" /\ ~llmKeyPhase
    /\ llm' = choice
    /\ IF NeedsKey(choice) THEN llmKeyPhase' = TRUE /\ input' = Blank /\ Stay
       ELSE Advance /\ UNCHANGED llmKeyPhase
    /\ UNCHANGED <<llmKey, telegram, brokerKey, brokerSecret, answers, voiceEnabled,
                   brokerSecretPhase, intakeIdx, result, done, backs>>

EnterLLMKey ==
    /\ step = "LLM" /\ llmKeyPhase /\ input # Blank
    /\ llmKey' = llm
    /\ llmKeyPhase' = FALSE
    /\ Advance
    /\ UNCHANGED <<llm, telegram, brokerKey, brokerSecret, answers, voiceEnabled,
                   brokerSecretPhase, intakeIdx, result, done, backs>>

EnterBrokerKey ==
    /\ step = "Broker" /\ ~brokerSecretPhase /\ input \notin {Blank, "bad"}
    /\ brokerKey' = input
    /\ brokerSecretPhase' = TRUE
    /\ input' = Blank /\ Stay
    /\ UNCHANGED <<llm, llmKey, telegram, brokerSecret, answers, voiceEnabled, llmKeyPhase,
                   intakeIdx, result, done, backs>>

EnterBrokerSecret ==
    /\ step = "Broker" /\ brokerSecretPhase /\ input \notin {Blank, "bad"}
    /\ brokerSecret' = brokerKey
    /\ brokerSecretPhase' = FALSE
    /\ Advance
    /\ UNCHANGED <<llm, llmKey, telegram, brokerKey, answers, voiceEnabled, llmKeyPhase,
                   intakeIdx, result, done, backs>>

EnterAnswer ==
    /\ step = "Intake" /\ intakeIdx <= Len(Questions)
    /\ Valid(Questions[intakeIdx], input)
    /\ answers' = [answers EXCEPT ![Questions[intakeIdx]] = input]
    /\ intakeIdx' = intakeIdx + 1
    /\ IF intakeIdx = Len(Questions) THEN Advance ELSE input' = Blank /\ Stay
    /\ UNCHANGED <<llm, llmKey, telegram, brokerKey, brokerSecret, voiceEnabled, llmKeyPhase,
                   brokerSecretPhase, result, done, backs>>

(* Back from Safety: every question is behind, what is typed is dropped. *)
LeaveIntake ==
    /\ step = "Intake" /\ intakeIdx > Len(Questions)
    /\ Advance
    /\ UNCHANGED <<accepted, llmKeyPhase, brokerSecretPhase, intakeIdx, result, done, backs>>

EnterSafety ==
    /\ step = "Safety" /\ Buildable(answers)
    /\ result' = [telegram |-> telegram, llm |-> llm, llmKey |-> llmKey,
                  key |-> brokerKey, secret |-> brokerSecret, answers |-> answers]
    /\ done' = TRUE
    /\ Advance
    /\ UNCHANGED <<accepted, llmKeyPhase, brokerSecretPhase, intakeIdx, backs>>

(* back: out of a nested prompt first, then through the questions, then to *)
(* the step before.                                                        *)
LeavesPrompt == llmKeyPhase \/ brokerSecretPhase
Esc ==
    /\ backs < MaxBack /\ backs' = backs + 1
    /\ \/ /\ LeavesPrompt
          /\ llmKeyPhase' = FALSE /\ brokerSecretPhase' = FALSE
          /\ llmKey' = IF llmKeyPhase THEN None ELSE llmKey
          /\ input' = Blank
          /\ UNCHANGED <<step, intakeIdx>>
       \/ /\ ~LeavesPrompt /\ step = "Intake" /\ intakeIdx > 1
          /\ intakeIdx' = intakeIdx - 1
          /\ input' = answers[Questions[intakeIdx - 1]]
          /\ UNCHANGED <<step, llmKey, llmKeyPhase, brokerSecretPhase>>
       \/ /\ ~LeavesPrompt /\ ~(step = "Intake" /\ intakeIdx > 1)
          /\ step' = IF step = "Welcome" THEN step ELSE stepOrder[Pos(step) - 1]
          /\ input' = Blank
          /\ UNCHANGED <<intakeIdx, llmKey, llmKeyPhase, brokerSecretPhase>>
    /\ UNCHANGED <<llm, telegram, brokerKey, brokerSecret, answers, voiceEnabled, result, done>>

(* Ctrl-C: the program ends with the model as it is. *)
CtrlC == quit' = TRUE /\ UNCHANGED <<step, accepted, llmKeyPhase, brokerSecretPhase,
                                     intakeIdx, input, result, done, backs>>

Key == \/ Type \/ Erase
       \/ EnterWelcome \/ EnterTelegram
       \/ \E c \in LLMChoices : EnterLLM(c)
       \/ EnterLLMKey \/ EnterBrokerKey \/ EnterBrokerSecret
       \/ EnterAnswer \/ LeaveIntake \/ EnterSafety
       \/ Esc

Next == ~quit /\ (CtrlC \/ (Key /\ UNCHANGED quit))
Spec == Init /\ [][Next]_vars

-----------------------------------------------------------------------------
(***************************************************************************)
(* A setup the owner finished is whole, whatever was corrected on the way: *)
(* a backend that needs a key has the one pasted for it, the secret was    *)
(* entered after the very key it goes with, and the answers build a        *)
(* playbook.  The one leftover is a key that stays with a backend that     *)
(* uses none, after the owner goes back and switches to it.                *)
(***************************************************************************)
SetupIsWhole ==
    done => /\ result.telegram # None
            /\ result.llm # "oauth-gpt" => result.llmKey = result.llm
            /\ result.key # None /\ result.secret = result.key
            /\ Buildable(result.answers)
=============================================================================
