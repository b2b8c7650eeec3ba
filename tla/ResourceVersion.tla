--------------------------- MODULE ResourceVersion --------------------------
(***************************************************************************)
(* The text form of a resourceVersion: "123" for a collection, "o5;123"    *)
(* for an object, where 5 is its version and 123 a watermark.  A text is a *)
(* sequence of tokens: decimal numbers, the letter o, the semicolon, and   *)
(* anything else.                                                          *)
(***************************************************************************)
EXTENDS Integers, Sequences

Number(n) == [kind |-> "number", value |-> n]

Letter == [kind |-> "o", value |-> 0]

Semicolon == [kind |-> ";", value |-> 0]

Token == [kind : {"number", "o", ";", "other"}, value : Nat]

IsNumber(s) == Len(s) = 1 /\ s[1].kind = "number"

RV(version, watermark) == [objectVersion |-> version, watermark |-> watermark]

\* Not a resourceVersion.
Invalid == [objectVersion |-> -1, watermark |-> -1]

String(v) ==
    IF v.objectVersion > 0
    THEN <<Letter, Number(v.objectVersion), Semicolon, Number(v.watermark)>>
    ELSE <<Number(v.watermark)>>

Watermark(version, s) == IF IsNumber(s) THEN RV(version, s[1].value) ELSE Invalid

\* An object version that does not parse, a missing semicolon and a missing or
\* unreadable watermark are errors; the empty text is version zero.
Parse(s) ==
    CASE s = <<>> -> RV(0, 0)
      [] s # <<>> /\ s[1] # Letter -> Watermark(0, s)
      [] s # <<>> /\ s[1] = Letter ->
            IF Len(s) > 2 /\ s[2].kind = "number" /\ s[3] = Semicolon
            THEN Watermark(s[2].value, SubSeq(s, 4, Len(s)))
            ELSE Invalid

=============================================================================
