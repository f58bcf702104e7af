------------------------------ MODULE DemoRepl ------------------------------
(***************************************************************************)
(* The interactive commands: `demo run`, which runs a flow and lets a       *)
(* person answer each point it blocks at (src/demo/repl.rs, runner.rs,      *)
(* history.rs and card/parse.rs), with its @setup; and `demo setup-wizard`, *)
(* which fills in a form and runs a flow with it (src/qa_setup_wizard.rs).  *)
(*                                                                          *)
(* A blocked point is known by its number.  What is typed is known by the   *)
(* point at which it is typed.  Commands that only print, @show, @json,     *)
(* @help and lines that do not parse, are not steps; neither is the end of  *)
(* the input for `demo run`, whose loop then reads nothing for ever.        *)
(***************************************************************************)
EXTENDS Integers, Sequences, FiniteSets, SequencesExt, TLC

CONSTANTS Outputs,    \* what a flow may put out where it blocks
          Fields,     \* the names of inputs that may be typed
          Actions,    \* the names of actions that may be clicked
          Sessions,   \* the commands: what they are told and what is in the pack
          MaxBlocks   \* how often the flow may block

NoCard == [kind |-> "no card"]
NoQuestion == "no question"
Nil == <<>>           \* a map without entries

VARIABLES session,   \* the command
          repl,      \* where it is
          blocks,    \* the runner's snapshot: the last point at which the flow blocked, or 0
          event,     \* the runner's pending_input
          card,      \* current_card
          typed,     \* pending_inputs
          history,   \* the stack of snapshots
          shown,     \* last_output: the point it is from
          filled,    \* the questions of the form that are answered so far
          question,  \* the question it is at
          sent       \* history: what the flow was resumed with, and at which point

replVars == <<session, repl, blocks, event, card, typed, history, shown, filled, question, sent>>
formVars == <<filled, question>>

-----------------------------------------------------------------------------
(* Cards *)

(* extract_card_object: an output may have an object in five places, `card`,
   `payload.card`, `payload.outputs.card`, `outputs.card` and itself; the first counts. *)
extract_card_object(output) ==
    LET found == SelectSeq(output, LAMBDA o : o # NoCard) IN IF found = <<>> THEN NoCard ELSE Head(found)

(* detect_adaptive_card_view: if it is no adaptive card, the other places are not tried. *)
detect_adaptive_card_view(output) ==
    LET o == extract_card_object(output) IN IF o.kind = "adaptive" THEN o ELSE NoCard

(* Without a card, anything may be typed and clicked. *)
AcceptsInput(f) == card # NoCard => f \in card.inputs

AcceptsAction(a) == card # NoCard => a \in card.actions

-----------------------------------------------------------------------------
(* The flow *)

Snapshot(point, view) == [point |-> point, card |-> view, typed |-> typed]

(* DemoRunner::run_until_blocked takes the event there is and resumes at the last point
   the flow blocked at, or begins with the initial input. *)
Resumes == sent' = (IF blocks = 0 THEN sent ELSE Append(sent, [point |-> blocks, fields |-> event]))

FlowBlocks(output) ==
    LET view == detect_adaptive_card_view(output)
    IN /\ repl = "run" /\ blocks < MaxBlocks
       /\ Resumes /\ event' = Nil /\ blocks' = blocks + 1
       /\ card' = view /\ history' = Append(history, Snapshot(blocks + 1, view)) /\ shown' = blocks + 1
       /\ repl' = "command" /\ UNCHANGED <<session, typed, formVars>>

FlowEnds ==
    /\ repl = "run" /\ Resumes /\ event' = Nil
    /\ \/ repl' = "finished" /\ blocks' = 0
       \/ repl' = "failed" /\ UNCHANGED blocks
    /\ UNCHANGED <<session, card, typed, history, shown, formVars>>

-----------------------------------------------------------------------------
(* command_loop *)

Type(f) ==
    /\ repl \in {"command", "setup", "wizard"} /\ AcceptsInput(f)
    /\ typed' = [g \in DOMAIN typed \union {f} |-> IF g = f THEN blocks ELSE typed[g]]
    /\ UNCHANGED <<session, repl, blocks, event, card, history, shown, formVars, sent>>

(* Mutant: what was typed is kept for the next card. *)
Bug_Leftover == typed

(* @click clears what was typed. *)
Leftover == Nil

Click(a) ==
    /\ repl = "command" /\ AcceptsAction(a)
    /\ event' = typed /\ typed' = Leftover /\ repl' = "run"
    /\ UNCHANGED <<session, blocks, card, history, shown, formVars, sent>>

(* DemoHistory: the first snapshot is kept. *)
go_back(stack) == IF Len(stack) <= 1 THEN stack ELSE Front(stack)

(* @back; the runner is not told. *)
Back ==
    LET past == go_back(history)
    IN /\ repl = "command" /\ past # history
       /\ history' = past /\ card' = Last(past).card /\ typed' = Last(past).typed /\ shown' = Last(past).point
       /\ UNCHANGED <<session, repl, blocks, event, formVars, sent>>

Quit ==
    /\ repl \in {"command", "wizard"} /\ repl' = "quit"
    /\ UNCHANGED <<session, blocks, event, card, typed, history, shown, formVars, sent>>

(* A line cannot be read; the wizard also ends with its input. *)
ReadFails ==
    /\ repl \in {"command", "wizard"} /\ repl' = "failed"
    /\ UNCHANGED <<session, blocks, event, card, typed, history, shown, formVars, sent>>

-----------------------------------------------------------------------------
(* handle_setup and run_interactive_card_wizard *)

Unanswered(done) == SelectSeq(session.form, LAMBDA q : q \notin done)

(* render_qa_card: for the first question that is left, perhaps with others. *)
render_qa_card(done) ==
    {[kind |-> "adaptive", inputs |-> fs, actions |-> {"submit"}] : fs \in {{Head(Unanswered(done))}, ToSet(Unanswered(done))}}

(* Each card starts with nothing typed. *)
Ask(done) ==
    /\ filled' = done /\ question' = Head(Unanswered(done)) /\ typed' = Nil
    /\ card' \in render_qa_card(done)

FormGone == filled' = {} /\ question' = NoQuestion

(* validate_answers_against_form_spec: all is answered, but perhaps not as it must be. *)
FormDone ==
    /\ FormGone /\ UNCHANGED <<typed, card>>
    /\ \/ repl = "setup" /\ repl' = "command"
       \/ repl = "wizard" /\ repl' \in {"flow", "failed"}

(* @setup; a pack that has no form has no set-up. *)
StartSetup ==
    /\ repl = "command" /\ session.form # <<>> /\ repl' = "setup" /\ Ask({})
    /\ UNCHANGED <<session, blocks, event, history, shown, sent>>

(* The value of the question, or else all that was typed. *)
Merged == filled \union (IF question \in DOMAIN typed THEN {question} ELSE DOMAIN typed)

(* Any @click goes on. *)
SubmitAnswers ==
    /\ repl \in {"setup", "wizard"}
    /\ \/ Unanswered(Merged) # <<>> /\ Ask(Merged) /\ UNCHANGED repl
       \/ Unanswered(Merged) = <<>> /\ FormDone
    /\ UNCHANGED <<session, blocks, event, history, shown, sent>>

(* @quit, or a line that cannot be read, ends the set-up and not the session. *)
LeaveSetup ==
    /\ repl = "setup" /\ repl' = "command" /\ FormGone
    /\ UNCHANGED <<session, blocks, event, card, typed, history, shown, sent>>

-----------------------------------------------------------------------------
(* DemoRunArgs::run and DemoSetupWizardArgs::run *)

(* The pack is there, declares the flow, and its secrets can be reached. *)
Resolves == session.resolves

StartRun ==
    /\ repl = "start" /\ session.op = "run"
    /\ repl' = (IF Resolves THEN "run" ELSE "failed")
    /\ UNCHANGED <<session, blocks, event, card, typed, history, shown, formVars, sent>>

StartWizardForm ==
    /\ repl = "start" /\ session.op = "setup-wizard"
    /\ \/ Resolves /\ session.form # <<>> /\ repl' = "wizard" /\ Ask({})
       \/ ~(Resolves /\ session.form # <<>>) /\ repl' = "failed" /\ UNCHANGED <<card, typed, formVars>>
    /\ UNCHANGED <<session, blocks, event, history, shown, sent>>

(* One run; a flow that blocks is not gone on with. *)
RunWizardFlow ==
    /\ repl = "flow"
    /\ \/ repl' = "finished" /\ blocks' \in {0, 1}
       \/ repl' = "failed" /\ UNCHANGED blocks
    /\ UNCHANGED <<session, event, card, typed, history, shown, formVars, sent>>

-----------------------------------------------------------------------------
ReplInit(sessions) ==
    /\ session \in sessions
    /\ repl = "start" /\ blocks = 0 /\ event = Nil /\ card = NoCard /\ typed = Nil /\ history = <<>> /\ shown = 0
    /\ filled = {} /\ question = NoQuestion /\ sent = <<>>

ReplNext ==
    \/ StartRun \/ StartWizardForm \/ RunWizardFlow
    \/ (\E o \in Outputs : FlowBlocks(o)) \/ FlowEnds
    \/ (\E f \in Fields : Type(f)) \/ (\E a \in Actions : Click(a)) \/ Back \/ Quit \/ ReadFails
    \/ StartSetup \/ SubmitAnswers \/ LeaveSetup

ReplSpec == ReplInit(Sessions) /\ [][ReplNext]_replVars

-----------------------------------------------------------------------------
(***************************************************************************)
(* Whatever was shown again with @back or filled in with @setup, the flow   *)
(* goes on where it blocked last: each point is answered once, in order,    *)
(* and only with what was typed since the flow blocked there.               *)
(***************************************************************************)
AnswersLastBlock ==
    \A i \in DOMAIN sent : sent[i].point = i /\ \A f \in DOMAIN sent[i].fields : sent[i].fields[f] = i
=============================================================================
