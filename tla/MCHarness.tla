------------------------------ MODULE MCHarness ------------------------------
(***************************************************************************)
(* Three parts of the experiment harness side by side: the study drivers   *)
(* (StudyRunner), one replay epoch (ReplayEpoch) and the reading of one    *)
(* chat completion stream (ChatStream).  A behaviour is one of a single    *)
(* part, chosen in HarnessInit; the variables of the others keep the value *)
(* of one of their initial states.                                         *)
(***************************************************************************)
EXTENDS StudyRunner, ReplayEpoch

CONSTANTS Chunks, MaxChunks

VARIABLES component, received, message, finish, firstOutput, stream, result

Chat == INSTANCE ChatStream

chatVars == <<received, message, finish, firstOutput, stream, result>>
harnessVars == <<component, vars, epochVars, chatVars>>

----------------------------------------------------------------------------
(* ChatStream: interleaved tool calls, late and repeated identifiers, two  *)
(* finish reasons and frames after them.                                   *)
Choice(text, parts, reason) ==
  [index |-> 0, text |-> text, refusal |-> "", bad |-> FALSE,
   parts |-> parts, finish |-> reason]
Part(index, id, out) == [index |-> index, id |-> id, out |-> out]
Frame(choice) == [id |-> "a", choices |-> <<choice>>]

MCChunks ==
  {[id |-> "a", choices |-> <<>>], [id |-> "b", choices |-> <<>>],
   Frame(Choice("x", <<>>, None)),
   Frame(Choice("", <<Part(0, "i", "f")>>, None)),
   Frame(Choice("", <<Part(0, "", "g"), Part(1, "", "h")>>, None)),
   Frame(Choice("", <<Part(1, "j", "")>>, None)),
   Frame(Choice("", <<Part(0, "j", "f"), Part(2, "k", "f")>>, None)),
   Frame(Choice("", <<>>, "tool_calls")),
   Frame(Choice("y", <<Part(0, "", "z")>>, "length")),
   Frame([Choice("", <<>>, None) EXCEPT !.refusal = "r"]),
   Frame([Choice("x", <<>>, None) EXCEPT !.bad = TRUE]),
   Frame([Choice("x", <<>>, None) EXCEPT !.index = 1]),
   [id |-> "a", choices |-> <<Choice("x", <<>>, None), Choice("x", <<>>, None)>>]}

----------------------------------------------------------------------------
HarnessInit ==
  /\ component \in {"study", "replay", "chat"}
  /\ Init /\ EpochInit /\ Chat!Init
  /\ component # "study" => runner = "pilot" /\ mode = "plan"

InReplay(action) ==
  component = "replay" /\ action /\ UNCHANGED <<component, vars, chatVars>>

\* An epoch and a stream that are over stay so; anything else that stops is a
\* deadlock.
PartOver ==
  /\ \/ component = "replay" /\ main = "over"
     \/ component = "chat" /\ result.how # "running"
  /\ UNCHANGED harnessVars

HarnessNext ==
  \/ component = "study" /\ Next
     /\ UNCHANGED <<component, epochVars, chatVars>>
  \/ InReplay(EpochNext)
  \/ component = "chat" /\ Chat!Next
     /\ UNCHANGED <<component, vars, epochVars>>
  \/ PartOver

\* ReplayEpoch's fairness, for the behaviours that are an epoch.
HarnessFairness ==
  /\ \A s \in Sessions : WF_harnessVars(InReplay(Task(s)))
  /\ WF_harnessVars(InReplay(Enter)) /\ WF_harnessVars(InReplay(GroupEnds))
  /\ WF_harnessVars(InReplay(WindowCloses))

HarnessSpec == HarnessInit /\ [][HarnessNext]_harnessVars /\ HarnessFairness

\* run_epoch: however slow the server is, the epoch ends.
ReplayEnds == component = "replay" => EpochEnds
\* stream_completion: what it returns is what the stream spells out.
CompletionIsTheStream == Chat!CompletionIsTheStream
=============================================================================
