----------------------------- MODULE PlainDecode -----------------------------
(***************************************************************************)
(* Decoding one token at a time, with the trunk alone: what the drafting   *)
(* loop of vqlab/mtp/loop.py promises to be indistinguishable from.  The   *)
(* repository writes it down as the reference of its own tests             *)
(* (tests/test_mtp_loop.py, plain_greedy); the runtime's version is        *)
(* mlx-lm's generate.                                                      *)
(***************************************************************************)
EXTENDS Naturals, Sequences

CONSTANTS
  Token,          \* the vocabulary
  Eos,            \* tokens that end a generation
  Trunk(_),       \* context -> the tokens the trunk may give next: one token
                  \* when greedy, the support of its distribution otherwise
  Process(_, _)   \* the logits processors: (tokens allowed, tokens emitted)

VARIABLES
  context,   \* what the trunk has read before the first token
  limit,     \* max_tokens
  emitted,   \* the tokens given so far
  finish     \* "none", "stop" or "length"

vars == <<context, limit, emitted, finish>>

\* Why generation ends with the last token of `tokens`, if it does.
Finished(tokens, max) ==
  IF tokens[Len(tokens)] \in Eos THEN "stop"
  ELSE IF Len(tokens) >= max THEN "length" ELSE "none"

Init ==
  /\ context \in Seq(Token)
  /\ limit \in Nat \ {0}
  /\ emitted = <<>>
  /\ finish = "none"

Emit ==
  /\ finish = "none"
  /\ \E t \in Process(Trunk(context \o emitted), emitted) :
       /\ emitted' = Append(emitted, t)
       /\ finish' = Finished(Append(emitted, t), limit)
  /\ UNCHANGED <<context, limit>>

Spec == Init /\ [][Emit]_vars

=============================================================================
