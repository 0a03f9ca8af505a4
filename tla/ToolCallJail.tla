---------------------------- MODULE ToolCallJail ----------------------------
(***************************************************************************)
(* The boundary adapter around the tool call jail,                         *)
(* apply_tool_calling_jail of fix/dynamo/preprocessor.rs.  The jail itself *)
(* (dynamo-parsers) is external: it may hold chunks back, fold several     *)
(* into one, or emit one of its own at the end of its input.  It does not  *)
(* know Dynamo's metadata, so the adapter takes the token count and the    *)
(* nvext completion ids off every chunk on the way in and puts them on a   *)
(* chunk on the way out.                                                   *)
(*                                                                         *)
(* Left out: the GLM 4.7 recovery of text before an unfinished call, which *)
(* rewrites content and no metadata.                                       *)
(***************************************************************************)
EXTENDS Naturals, Sequences

CONSTANTS
  MaxChunks,   \* bound: chunks of a response
  MaxTokens    \* bound: tokens of a chunk

VARIABLES
  arrived,   \* history: the chunks that came in, in order
  pending,   \* PendingDynamoMetadata
  jail,      \* chunks the jail holds, stripped of their metadata
  latched,   \* terminal_error is latched
  held,      \* usage chunks hold_usage_until_stream_end keeps, at most one
  passed,    \* chunks sent on
  over       \* the stream is over

jailVars == <<arrived, pending, jail, latched, held, passed, over>>

\* A chunk: what it is ("choice", "usage", "payload" for a payload-only usage
\* chunk, "bare" for an annotation without data), its token count as an
\* optional value, and its completion ids.
Chunk(kind, tokens, ids) == [kind |-> kind, tokens |-> tokens, ids |-> ids]
HasData(kind) == kind \in {"choice", "usage", "payload"}

NoMetadata == [metrics |-> FALSE, tokens |-> 0, ids |-> <<>>]

JailInit ==
  /\ arrived = <<>> /\ pending = NoMetadata /\ jail = <<>>
  /\ latched = FALSE /\ held = <<>> /\ passed = <<>> /\ over = FALSE

\* hold_usage_until_stream_end, the last stage of the adapter.
Usage(chunk) == chunk.kind \in {"usage", "payload"}
Hold(chunk) ==
  IF Usage(chunk) THEN passed' = passed \o held /\ held' = <<chunk>>
                  ELSE passed' = Append(passed, chunk) /\ UNCHANGED held

\* On the way in: the metadata of a chunk joins what is pending.
Buffer(p, chunk) ==
  [metrics |-> p.metrics \/ chunk.tokens # <<>>,
   tokens |-> p.tokens + (IF chunk.tokens = <<>> THEN 0 ELSE chunk.tokens[1]),
   ids |-> p.ids \o chunk.ids]

Arrive(chunk) ==
  /\ ~over /\ ~latched /\ Len(arrived) < MaxChunks
  /\ arrived' = Append(arrived, chunk)
  /\ pending' = Buffer(pending, chunk)
  /\ jail' = Append(jail, chunk.kind)
  /\ UNCHANGED <<latched, held, passed, over>>

\* On the way out: a chunk with data takes the pending count; the ids wait
\* for a chunk with a choice that the client will see.
Stamp(p, kind) ==
  Chunk(kind, IF HasData(kind) /\ p.metrics THEN <<p.tokens>> ELSE <<>>,
        IF kind = "choice" THEN p.ids ELSE <<>>)
\* Mutant: a reported count stays pending.
StampedTwice(p, kind) ==
  [p EXCEPT !.ids = IF kind = "choice" THEN <<>> ELSE @]
Stamped(p, kind) ==
  [metrics |-> p.metrics /\ ~HasData(kind),
   tokens |-> IF HasData(kind) THEN 0 ELSE p.tokens,
   ids |-> IF kind = "choice" THEN <<>> ELSE p.ids]

\* The jail emits a chunk for the first ones it holds: the choices are folded
\* into one; anything else passes alone and in order.
Folds(n) == n = 1 \/ \A k \in 1..n : jail[k] = "choice"
Release(n) ==
  /\ ~over /\ n \in 1..Len(jail) /\ Folds(n)
  /\ IF latched THEN UNCHANGED <<pending, held, passed>>
     ELSE Hold(Stamp(pending, jail[n]))
          /\ pending' = Stamped(pending, jail[n])
  /\ jail' = SubSeq(jail, n + 1, Len(jail))
  /\ UNCHANGED <<arrived, latched, over>>

\* The jail drops chunks it consumed as part of a call.
Swallow ==
  /\ ~over /\ jail # <<>> /\ Head(jail) = "choice"
  /\ jail' = Tail(jail)
  /\ UNCHANGED <<arrived, pending, latched, held, passed, over>>

\* take_while latches an error and ends the jail's input.
Fail ==
  /\ ~over /\ ~latched
  /\ latched' = TRUE
  /\ UNCHANGED <<arrived, pending, jail, held, passed, over>>

\* The end: the jail may finalise a chunk of its own, which is dropped after
\* an error.  Then the error alone, or the metadata that found no chunk.
Synthetic(p) ==
  IF p.metrics \/ p.ids # <<>>
  THEN <<Chunk("metadata", IF p.metrics THEN <<p.tokens>> ELSE <<>>, p.ids)>>
  ELSE <<>>
End ==
  /\ ~over /\ jail = <<>>
  /\ IF latched
     THEN /\ passed' = Append(passed, Chunk("error", <<>>, <<>>))
          /\ held' = <<>> /\ pending' = NoMetadata
     ELSE \E own \in {<<>>, <<"choice">>} :
            LET stamp == IF own = <<>> THEN <<>>
                         ELSE <<Stamp(pending, own[1])>>
                rest == IF own = <<>> THEN pending
                        ELSE Stamped(pending, own[1])
            IN /\ passed' = passed \o stamp \o Synthetic(rest) \o held
               /\ held' = <<>> /\ pending' = NoMetadata
  /\ over' = TRUE
  /\ UNCHANGED <<arrived, jail, latched>>

\* What the chunks of a sequence report, one after the other.
Count(chunk) == IF chunk.tokens = <<>> THEN 0 ELSE chunk.tokens[1]
Reported(chunks) ==
  LET upTo[n \in 0..Len(chunks)] ==
        IF n = 0 THEN [tokens |-> 0, ids |-> <<>>]
        ELSE [tokens |-> upTo[n - 1].tokens + Count(chunks[n]),
              ids |-> upTo[n - 1].ids \o chunks[n].ids]
  IN upTo[Len(chunks)]

Total(chunks) == Reported(chunks).tokens
Ids(chunks) == Reported(chunks).ids

\* The completion ids of a chunk are numbered in the order they are produced.
Produced == Len(Ids(arrived))
JailNext ==
  \/ \E n \in 0..MaxTokens, counted \in BOOLEAN :
       Arrive(Chunk("choice", IF counted THEN <<n>> ELSE <<>>,
                    [k \in 1..n |-> Produced + k]))
  \/ \E kind \in {"usage", "payload", "bare"} :
       Arrive(Chunk(kind, IF HasData(kind) THEN <<0>> ELSE <<>>, <<>>))
  \/ \E n \in 1..MaxChunks : Release(n)
  \/ Swallow \/ Fail \/ End

JailSpec == JailInit /\ [][JailNext]_jailVars

----------------------------------------------------------------------------
(***************************************************************************)
(* Whatever the jail holds, folds, swallows or adds, a response that did   *)
(* not fail reports every token exactly once and hands the client every    *)
(* completion id in order ("observe_response sums chunk_tokens", "token    *)
(* IDs are appended"), none of them on a payload chunk the client never    *)
(* sees; one that failed ends in its error and no usage.                   *)
(***************************************************************************)
MetadataConserved ==
  over =>
    IF latched
    THEN passed[Len(passed)].kind = "error" /\ held = <<>>
         /\ Total(passed) <= Total(arrived)
    ELSE /\ Total(passed) = Total(arrived)
         /\ Ids(passed) = Ids(arrived)
         /\ \A k \in DOMAIN passed :
              passed[k].kind = "payload" => passed[k].ids = <<>>
=============================================================================
