------------------------------ MODULE MCInputs ------------------------------
(* Small instances of the components that put an input into somebody's Codex *)
(* session once: incidents and their recovery; remote questions, read by two *)
(* observers or delivered again by hand; and prompt rules, one that repeats  *)
(* while Preferences and a command edit the profile, or two of which each of *)
(* two dispatchers has one.  They have no state in common: a behaviour is    *)
(* one of the instance that "focus" names, and the others stay as they       *)
(* began, so that the states are the sum of the instances' and not the       *)
(* product.                                                                  *)
EXTENDS MCIncidents, RemoteQuestions, PromptRules

CONSTANTS
    Retrier,  \* dispatch-answer, beside one observer
    Service   \* the observer of that instance, and of the one with two rules

VARIABLE focus

Instances == {"incidents", "questions", "retried", "rules", "pair"}

Retried == INSTANCE RemoteQuestions WITH
              Observers <- {Service}, Retriers <- {Retrier}

\* A red rule of the tray and a gated one of the observer, at one moment.
Pair == INSTANCE PromptRules WITH
           NumRules <- 2, Red <- {1}, Gated <- {2}, Repeating <- {},
           RuleObservers <- {Service}, Disablers <- {},
           MaxMinutes <- 0, MaxEdits <- 0, MaxArmings <- 1

inputsVars == <<vars, questionVars, ruleVars, focus>>

InputsInit ==
    /\ focus \in Instances
    /\ Init
    /\ IF focus = "retried" THEN Retried!QuestionsInit ELSE QuestionsInit
    /\ IF focus = "pair" THEN Pair!RulesInit ELSE RulesInit

InputsNext ==
    /\ focus' = focus
    /\ \/ /\ focus = "incidents" /\ Next
          /\ UNCHANGED <<questionVars, ruleVars>>
       \/ /\ focus = "questions" /\ QuestionsNext
          /\ UNCHANGED <<vars, ruleVars>>
       \/ /\ focus = "retried" /\ Retried!QuestionsNext
          /\ UNCHANGED <<vars, ruleVars>>
       \/ /\ focus = "rules" /\ RulesNext
          /\ UNCHANGED <<vars, questionVars>>
       \/ /\ focus = "pair" /\ Pair!RulesNext
          /\ UNCHANGED <<vars, questionVars>>

InputsSpec == InputsInit /\ [][InputsNext]_inputsVars

InputsTypeOK ==
    /\ focus \in Instances
    /\ CASE focus = "incidents" -> TypeOK
         [] focus = "questions" -> QuestionsTypeOK
         [] focus = "retried"   -> Retried!QuestionsTypeOK
         [] focus = "rules"     -> RulesTypeOK
         [] focus = "pair"      -> Pair!RulesTypeOK

ObserverSymmetry == Permutations(Observers)
=============================================================================
