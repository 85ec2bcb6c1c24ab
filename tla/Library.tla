------------------------------- MODULE Library -------------------------------
(***************************************************************************)
(* A program that uses the library: it makes one call and gets an answer.  *)
(***************************************************************************)
EXTENDS RecordBuilder, CommandLine, Forms

CONSTANTS
  SignTasks, \* <<fields, signer>>: records to sign
  ReadTasks, \* <<text, profile>>: records to read
  Commands,  \* commands of the tool
  Questions  \* short forms, as text or as value

\* What is read is a text, and so is every field that is signed.
ASSUME TasksAssumption ==
  /\ ReadTasks \subseteq Seq(Symbols) \X Profile
  /\ \A task \in SignTasks :
       LET b == task[1] IN
       /\ task = <<b, task[2]>> /\ task[2] \in Signers
       /\ FieldTexts(b) \subseteq Seq(Symbols) \union {NONE}
       /\ b.flags # NONE => /\ b.flags \in Seq(Range(b.flags))
                            /\ \A flag \in Range(b.flags) : flag.text # NONE
       /\ b.readings \in Seq(Range(b.readings))

\* A command but to-xml takes one file; verify takes a container or lines of text.
ASSUME CommandsAssumption ==
  \A c \in Commands :
    /\ c = [name |-> c.name, files |-> c.files, key |-> c.key, profile |-> c.profile, source |-> NONE]
    /\ c.name # "to-xml" => c.files = <<c.files[1]>>
    /\ c.name = "verify" /\ c.files[1].kind # "xml" =>
         LET lines == c.files[1].content IN
         /\ c.files[1].kind = "lines"
         /\ lines \in Seq(Range(lines)) /\ \A t \in Range(lines) : t \in Seq(Range(t))

\* A question about a date gives a time that is one.
ASSUME QuestionsAssumption ==
  \A q \in Questions : q.kind = "date" =>
    LET t == q.value IN
    /\ q = [kind |-> "date", value |-> t]
    /\ t.year \in Nat /\ t.clock \in [1 .. 3 -> Nat] /\ t.millisecond \in Nat
    /\ t.offset_minutes \in Int /\ IsValidTime(t)

\* A question about a signature gives bytes, or two scalars, short enough to be counted.
ASSUME SignaturesAssumption ==
  \A q \in Questions : q.kind = "der" =>
    IF "text" \in DOMAIN q
    THEN q = [kind |-> "der", text |-> q.text] /\ q.text \in Seq(0 .. 255) /\ Len(q.text) + 12 < TOO_LONG
    ELSE LET v == q.value IN
         /\ q = [kind |-> "der", value |-> v]
         /\ v.r \in Seq(0 .. 255) /\ v.s \in Seq(0 .. 255) /\ Len(v.r) + Len(v.s) + 12 < TOO_LONG

\* The order of a curve has no more octets than its coordinates; a question about scalars
\* names a curve, and gives bytes, or two scalars, short enough to be counted.
ASSUME ScalarsAssumption ==
  /\ \A c \in CurveNames :
       FieldBytes[c] \in Nat /\ OrderOf[c] \in Seq(0 .. 255) /\ Len(OrderOf[c]) <= FieldBytes[c]
  /\ \A q \in Questions : q.kind = "scalars" =>
       /\ q.curve \in CurveNames
       /\ IF "text" \in DOMAIN q
          THEN /\ q = [kind |-> "scalars", curve |-> q.curve, text |-> q.text]
               /\ q.text \in Seq(0 .. 255) /\ Len(q.text) + 12 < TOO_LONG
          ELSE LET v == q.value IN
               /\ q = [kind |-> "scalars", curve |-> q.curve, value |-> v]
               /\ v.r \in Seq(0 .. 255) /\ v.s \in Seq(0 .. 255)
               /\ Len(v.r) + Len(v.s) + Len(OrderOf[q.curve]) + 12 < TOO_LONG

\* A question about an encoding gives a text, or bytes.
ASSUME EncodingsAssumption ==
  \A q \in Questions : q.kind \in {"hex", "base64"} =>
    IF "text" \in DOMAIN q
    THEN q = [kind |-> q.kind, text |-> q.text] /\ q.text \in Seq(Range(q.text))
    ELSE q = [kind |-> q.kind, value |-> q.value] /\ q.value \in Seq(0 .. 255)

using_library == <<json, reading, building>>
using_tool == <<container, line>>

vars == <<using_library, using_tool, forms>>

NothingRead ==
  /\ text = <<>> /\ pos = 1 /\ depth = 0 /\ stack = <<>> /\ mode = "idle" /\ start = 0
  /\ value = NONE /\ dev = {} /\ error = NONE
  /\ profile = "Strict" /\ section = "idle" /\ payload = NoSection /\ signature = NoSection
  /\ verdict = NONE

NothingSigned ==
  /\ builder = RecordBuilder /\ signer = NONE /\ stage = "idle" /\ rendered = <<>> /\ result = NONE

NothingCommanded ==
  /\ batch = <<>> /\ values = <<>> /\ open = NONE /\ next_id = 1
  /\ events = <<>> /\ here = 1 /\ current = NONE /\ in_signed = FALSE /\ in_key = FALSE
  /\ chars = <<>> /\ root = FALSE /\ entries = <<>> /\ xml_error = NONE
  /\ command = NONE /\ step = "idle" /\ files = <<>> /\ items = <<>> /\ failures = 0
  /\ exit = NONE /\ printed = NONE

Init == NothingRead /\ NothingSigned /\ NothingCommanded /\ NothingAsked

Idle == section = "idle" /\ stage = "idle" /\ step = "idle" /\ asked = NONE

CallRead ==
  Idle /\ \E t \in ReadTasks : Reading(t[1], t[2]) /\ UNCHANGED <<building, using_tool, forms>>
CallSign ==
  Idle /\ \E t \in SignTasks : Sign(t[1], t[2]) /\ UNCHANGED <<json, reading, using_tool, forms>>
CallTool == Idle /\ \E c \in Commands : Call(c) /\ UNCHANGED <<using_library, container, forms>>
CallForm == Idle /\ \E q \in Questions : Ask(q) /\ UNCHANGED <<using_library, using_tool>>

ReadOnly == stage = "idle" /\ Read /\ UNCHANGED <<building, using_tool, forms>>
Building == Build /\ UNCHANGED <<using_tool, forms>>
Tool     == (Run \/ Pipe) /\ UNCHANGED <<using_library, forms>>
Forming  == Form /\ UNCHANGED <<using_library, using_tool>>

Next == CallRead \/ CallSign \/ CallTool \/ CallForm \/ ReadOnly \/ Building \/ Tool \/ Forming

\* parse_with and sign are plain calls: while there is a symbol to read, it is read.
Fairness == WF_vars(Scan /\ UNCHANGED <<building, using_tool, forms>>)

Spec == Init /\ [][Next]_vars /\ Fairness

\* A text that is being read is read to an end: the reader takes a symbol, closes
\* what it has opened or stops, and never stays where it is (json.rs and record.rs).
ReadingEnds == section = "header" ~> section \in {"typed", "done"}

=============================================================================
