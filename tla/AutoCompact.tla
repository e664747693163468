---------------------------- MODULE AutoCompact ----------------------------
(***************************************************************************)
(* The message list of an agent session and the context compactor that     *)
(* shortens it (src/src/agent/auto_compact.py).                            *)
(*                                                                         *)
(* A message is a record: its kind stands for its role and for whether an  *)
(* assistant message carries tool calls, round names the model response    *)
(* the message belongs to, and n counts its tool calls or tool results.    *)
(* The text of a message is left out; a message is "recent" by position.   *)
(***************************************************************************)
EXTENDS Integers, Sequences

CONSTANTS
    KeepRecent,   \* KEEP_RECENT, 10 in the code
    MaxFailures   \* MAX_FAILURES, 3 in the code

ASSUME CompactorAssumption ==
    /\ KeepRecent \in Nat
    /\ MaxFailures \in Nat \ {0}

Kind == {"user", "text", "call", "tool", "summary"}

Message == [kind : Kind, round : Nat, n : Nat]

Prompt == [kind |-> "user", round |-> 0, n |-> 0]
Text(r) == [kind |-> "text", round |-> r, n |-> 0]
Calls(r, k) == [kind |-> "call", round |-> r, n |-> k]
Results(r, k) == [kind |-> "tool", round |-> r, n |-> k]

(* The synthetic message that replaces what was summarized: role "user".   *)
Summary == [kind |-> "summary", round |-> 0, n |-> 0]

(* The roles at which a cut is safe; the session's list never holds the    *)
(* system message, which is put in front of it for the token count only.   *)
IsUserRole(m) == m.kind \in {"user", "summary"}

(***************************************************************************)
(* _find_round_boundary: how many leading messages may be cut when the     *)
(* last `desired` ones before the recent part are wanted: the walk back    *)
(* from `desired` stops at the nearest message of role user, else at 0.    *)
(***************************************************************************)
\* Mutant: the cut may fall anywhere.
SafeCutsAnyRole(ms, desired) == {i \in 1..desired : i < Len(ms)}

SafeCuts(ms, desired) ==
    {i \in 1..desired : i < Len(ms) /\ IsUserRole(ms[i + 1])}

RoundBoundary(ms, desired) ==
    IF SafeCuts(ms, desired) = {}
      THEN 0
      ELSE CHOOSE i \in SafeCuts(ms, desired) :
             \A j \in SafeCuts(ms, desired) : j <= i

\* Mutant: the recent part is not held back.
CutOfWhole(ms) == RoundBoundary(ms, Len(ms))

(* The index compact() cuts at when it is called on ms.                    *)
CutOf(ms) == RoundBoundary(ms, Len(ms) - KeepRecent)

(* compact() goes on to summarize: enabled, long enough, something to cut. *)
MayCompact(ms, isDisabled) ==
    /\ ~isDisabled
    /\ Len(ms) > KeepRecent + 2
    /\ CutOf(ms) > 0

(* The part kept verbatim, taken before the summary is awaited.            *)
RecentOf(ms) == SubSeq(ms, CutOf(ms) + 1, Len(ms))

(* The list rebuilt in place once the summary has arrived.                 *)
Compacted(recent) == <<Summary>> \o recent

(***************************************************************************)
(* should_compact and should_micro_compact look at the list with the       *)
(* system prompt in front; pressure is the estimated size of that list.    *)
(***************************************************************************)
Pressure == {"low", "proactive", "reactive"}

ShouldCompact(ms, isDisabled, pressure) ==
    /\ ~isDisabled
    /\ Len(ms) + 1 > KeepRecent + 2
    /\ pressure = "reactive"

ShouldMicroCompact(ms, isDisabled, pressure) ==
    /\ ~isDisabled
    /\ Len(ms) + 1 > KeepRecent + 4
    /\ pressure \in {"proactive", "reactive"}
=============================================================================
