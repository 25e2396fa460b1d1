------------------------------- MODULE Envelope -------------------------------
(***************************************************************************)
(* The shape of a state (internal/states/envelope.go): what is read from a *)
(* value, and whether it is the shape an account should have.              *)
(*                                                                         *)
(* A value is the number of bytes that it decodes to, the padding behind   *)
(* its text, when it was minted, and whether the rest of it is as it should*)
(* be: base64, the version byte, no white space.                           *)
(***************************************************************************)
EXTENDS RuleInput, Integers

Overhead == 57
BlockSize == 16
MaxEnvelopeBytes == 2048
FirstIssue == 1577836800     \* 2020
NoIssueFrom == 2147483647    \* 2100 in the code; the largest number of TLC

Unreadable == 0

\* The text of n bytes, without and with its padding.
RawLength(n) == (n * 8 + 5) \div 6
PaddedLength(n) == ((n + 2) \div 3) * 4

TextLength(v) == RawLength(v.bytes) + v.padding

\* The number of blocks.
ParseEnvelope(v) ==
    IF /\ v.sound /\ v.padding <= 2
       /\ TextLength(v) <= MaxEnvelopeBytes
       /\ v.bytes >= Overhead + BlockSize
       /\ (v.bytes - Overhead) % BlockSize = 0
       /\ v.issued >= FirstIssue /\ v.issued < NoIssueFrom
    THEN (v.bytes - Overhead) \div BlockSize
    ELSE Unreadable

EncodedLength(blocks) == IF blocks <= 0 THEN 0 ELSE PaddedLength(Overhead + BlockSize * blocks)

\* Ten blocks for a person, twelve for a team.
PlanBlocks(plan) == IF plan \in {"team", "business"} THEN 12 ELSE 10

\* Mutant of BlocksForLength: the personal rule for every length.
BlocksForLengthPersonal(length) == PlanBlocks("")

\* The inverse of EncodedLength, where it has one.
BlocksForLength(length) ==
    LET found == {b \in 1..32 : EncodedLength(b) = length}
    IN  IF found = {} THEN PlanBlocks("") ELSE CHOOSE b \in found : \A c \in found : b <= c

\* A plan that is not known leaves the length that the operator configured.
ExpectationFor(plan, length) ==
    IF plan = "" THEN [blocks |-> BlocksForLength(length), length |-> length]
    ELSE [blocks |-> PlanBlocks(plan), length |-> EncodedLength(PlanBlocks(plan))]

\* The length decides only for what cannot be read.
AcceptState(v, want) ==
    LET blocks == ParseEnvelope(v)
    IN  IF blocks = Unreadable THEN v.bytes > 0 /\ TextLength(v) = want.length
        ELSE blocks = want.blocks

-----------------------------------------------------------------------------
(* Properties *)

\* As upstream writes it.
Canonical(v) == ParseEnvelope(v) # Unreadable /\ TextLength(v) = PaddedLength(v.bytes)

\* The fallbacks of AcceptState (envelope.go:172-175) and ExpectationFor (:142-144)
\* decide as the shape would.  A value as upstream writes it is accepted exactly
\* if it has the expected length, readable or not, whenever that length is of a
\* shape at all; so that neither a missing plan nor a format that can no longer
\* be read changes what is bound.
ShapeIsLength(v, plan, length) ==
    LET want == ExpectationFor(plan, length)
    IN  Canonical(v) /\ want.length \in {EncodedLength(b) : b \in 1..32} =>
            /\ AcceptState(v, want) <=> TextLength(v) = want.length
            /\ AcceptState(v, want) <=> AcceptState([v EXCEPT !.sound = FALSE], want)
\* What is asked of a value: under a plan and a length of the operator.
StoredValue == [bytes : Nat, padding : 0..3, issued : Nat, sound : BOOLEAN]
EnvelopeInputs == [rule : {"envelope"}, value : StoredValue, plan : STRING, length : Nat]

\* The length, where AcceptState falls back on it and where blocksForLength takes
\* a shape from it (envelope.go:148-177), leads to the decision of the shape.
ShapesAreLengths ==
    input.rule = "envelope" => ShapeIsLength(input.value, input.plan, input.length)

\* envelope.go:163-164: "two states of the same length can still be different
\* shapes".  No two that can be read are, however they are padded: a block is 21
\* characters or more, and the padding two at most.
LengthIsNotShape ==
    \E v, w \in [bytes : {Overhead + BlockSize * b : b \in 1..96}, padding : 0..2,
                 issued : {FirstIssue}, sound : {TRUE}] :
        /\ TextLength(v) = TextLength(w)
        /\ ParseEnvelope(v) # Unreadable /\ ParseEnvelope(w) # Unreadable
        /\ ParseEnvelope(v) # ParseEnvelope(w)
=============================================================================
