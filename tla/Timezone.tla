------------------------------- MODULE Timezone -------------------------------
(***************************************************************************)
(* The rewrite of the time zone that a request declares                    *)
(* (internal/timezone/rewrite.go): first in the environment context that   *)
(* the client appends, whose tags are spelled in one of several dialects,  *)
(* and then in two JSON fields.                                            *)
(*                                                                         *)
(* A body is a sequence of tokens: tags, texts between them, keys with     *)
(* their colon, and the strings and numbers behind these.                  *)
(***************************************************************************)
EXTENDS RuleInput, Integers, Sequences, SequencesExt

CONSTANTS Dialects,  \* how tags are spelled, in the order they are tried
          Zone,      \* the zone to rewrite to
          Today,     \* the date there
          Offset,    \* its offset, as the field has it
          ZoneLike   \* the texts that look like a zone

ASSUME TimezoneAssumption ==
    Dialects \in Seq(STRING) /\ Zone \in STRING /\ Today \in STRING /\ Offset \in STRING

Open(d, name) == <<"open", d, name>>
Close(d, name) == <<"close", d, name>>
Text(x) == <<"text", x>>
Key(name) == <<"key", name>>

\* The first place of a token at or behind the place i; 0 if there is none.
IndexFrom(body, i, token) ==
    LET at == {j \in i..Len(body) : body[j] = token}
    IN  IF at = {} THEN 0 ELSE CHOOSE j \in at : \A k \in at : j <= k

\* The places of the first opening tag, and of the first closing tag behind it.
FindBlock(body, d, name) ==
    LET start == IndexFrom(body, 1, Open(d, name))
        end == IF start = 0 THEN 0 ELSE IndexFrom(body, start + 1, Close(d, name))
    IN  <<start, end>>

HasBlock(body, d, name) == FindBlock(body, d, name)[2] # 0

MentionsAMarker(body) ==
    \/ \E d \in ToSet(Dialects), name \in {"environment_context", "timezone"} :
         Open(d, name) \in ToSet(body)
    \/ \E name \in {"timezone", "timezone_offset_min"} : Key(name) \in ToSet(body)

\* Mutant of ReplaceTag: the new text is put in front of the old one.
ReplaceTagInserts(body, d, name, value) ==
    LET b == FindBlock(body, d, name)
    IN  IF b[2] = 0 THEN body
        ELSE SubSeq(body, 1, b[1]) \o <<Text(value)>> \o SubSeq(body, b[1] + 1, Len(body))

\* The text of the first element; without a closing tag nothing is touched.
ReplaceTag(body, d, name, value) ==
    LET b == FindBlock(body, d, name)
    IN  IF b[2] = 0 THEN body
        ELSE SubSeq(body, 1, b[1]) \o <<Text(value)>> \o SubSeq(body, b[2], Len(body))

\* Mutant of ReplaceTagWithin: the first element anywhere.
ReplaceTagAnywhere(body, d, name, value) == ReplaceTag(body, d, name, value)

\* The same for the first element of the environment context.
ReplaceTagWithin(body, d, name, value) ==
    LET b == FindBlock(body, d, "environment_context")
    IN  SubSeq(body, 1, b[1] - 1)
            \o ReplaceTag(SubSeq(body, b[1], b[2] - 1), d, name, value)
            \o SubSeq(body, b[2], Len(body))

\* The dialects in which the body has an environment context, and the first of them.
Wrappers(body) == {i \in DOMAIN Dialects : HasBlock(body, Dialects[i], "environment_context")}
Wrapper(body) == Dialects[CHOOSE i \in Wrappers(body) : \A j \in Wrappers(body) : i <= j]

\* The elements that stand alone, in one dialect after the other.
RewriteBareTags(body) ==
    LET after[n \in Nat] ==
            IF n = 0 THEN body
            ELSE ReplaceTag(ReplaceTag(after[n - 1], Dialects[n], "timezone", Zone),
                            Dialects[n], "current_date", Today)
    IN  after[Len(Dialects)]

RewriteEnvironment(body) ==
    IF Wrappers(body) = {} THEN RewriteBareTags(body)
    ELSE ReplaceTagWithin(ReplaceTagWithin(body, Wrapper(body), "timezone", Zone),
                          Wrapper(body), "current_date", Today)

\* The value behind the first such key: a string that looks like a zone, or a
\* number where one is expected.
ReplaceJSONField(body, name, value, numericOK) ==
    LET i == IndexFrom(body, 1, Key(name))
        fits(v) == (v[1] = "string" /\ v[2] \in ZoneLike) \/ (v[1] = "number" /\ numericOK)
    IN  IF i # 0 /\ i < Len(body) /\ fits(body[i + 1])
        THEN [body EXCEPT ![i + 1] = <<@[1], value>>] ELSE body

Rewrite(body) ==
    IF ~MentionsAMarker(body) THEN body
    ELSE ReplaceJSONField(
             ReplaceJSONField(RewriteEnvironment(body), "timezone", Zone, FALSE),
             "timezone_offset_min", Offset, TRUE)

-----------------------------------------------------------------------------
(* Properties *)

IsTag(token) == token[1] \in {"open", "close"}

\* Inside an element that is to be rewritten stands no tag but its own opening one.
ElementsAreDisjoint(body) ==
    \A d \in ToSet(Dialects), name \in {"timezone", "current_date"} : \A i, j \in DOMAIN body :
        i < j /\ body[i] = Open(d, name) /\ body[j] = Close(d, name) =>
            \E k \in (i + 1)..j : /\ body[k] = Close(d, name)
                                 /\ \A m \in (i + 1)..(k - 1) : body[m] = Open(d, name) \/ ~IsTag(body[m])

\* rewrite.go:24: no substitution is left half done, and none is repeated: what
\* has been rewritten says the same to a second rewrite.
RewriteIsStable(body) ==
    ElementsAreDisjoint(body) => Rewrite(Rewrite(body)) = Rewrite(body)

\* rewrite.go:189: beside a complete environment context, a message that quotes
\* a tag is not edited.  rewrite.go:326: nor is a field of the same name that
\* holds something else; with no tags, only a zone or an offset behind its key is.
OutsideIsKept(body) ==
    Wrappers(body) # {} =>
        LET b == FindBlock(body, Wrapper(body), "environment_context")
            out == RewriteEnvironment(body)
            rest == Len(body) - b[2]
        IN  /\ SubSeq(out, 1, b[1]) = SubSeq(body, 1, b[1])
            /\ SubSeq(out, Len(out) - rest, Len(out)) = SubSeq(body, b[2], Len(body))

OnlyFieldsAreEdited(body) ==
    LET out == Rewrite(body)
        zone(v) == v[1] = "string" /\ v[2] \in ZoneLike
        field(i) ==
            \/ body[i - 1] = Key("timezone") /\ zone(body[i])
            \/ body[i - 1] = Key("timezone_offset_min") /\ (zone(body[i]) \/ body[i][1] = "number")
    IN  (\A i \in DOMAIN body : body[i][1] \notin {"open", "close"}) =>
            /\ Len(out) = Len(body)
            /\ \A i \in DOMAIN body : out[i] = body[i] \/ (i > 1 /\ field(i))

OnlyDeclarations(body) == OutsideIsKept(body) /\ OnlyFieldsAreEdited(body)

\* rewrite.go:191: only a body with no environment context at all is edited
\* outside of one.
NoContextNoEdit(body) ==
    (\E d \in ToSet(Dialects) : Open(d, "environment_context") \in ToSet(body))
        /\ Wrappers(body) = {} => RewriteEnvironment(body) = body
\* What is asked of a body: it is made of tokens.
Token == ({"open", "close"} \X STRING \X STRING) \cup ({"text", "key", "string", "number"} \X STRING)
TimezoneInputs == [rule : {"timezone"}, body : Seq(Token)]

\* A second rewrite finds nothing to do (rewrite.go:24).
RewritesAreStable == input.rule = "timezone" => RewriteIsStable(input.body)

\* Only what the environment context declares is edited, or the fields that hold
\* a zone or an offset (rewrite.go:189).
DeclarationsAreTheLimit == input.rule = "timezone" => OnlyDeclarations(input.body)

\* With any trace of an environment context, only this is (rewrite.go:191).
NoBareTags == input.rule = "timezone" => NoContextNoEdit(input.body)
=============================================================================
