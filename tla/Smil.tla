-------------------------------- MODULE Smil --------------------------------
(***************************************************************************)
(* smil.rs: reading the cues of a media overlay.  A time is a number of    *)
(* milliseconds.  A clock value is written as fields between colons, or as *)
(* one field with a unit, or none; a field is <<n>>, or <<>> when it is no *)
(* number.                                                                 *)
(***************************************************************************)
EXTENDS Xml, Integers

CONSTANTS
    SmilTags,      \* the tags overlays are written with
    SmilFiles,     \* the paths href::resolve finds to be inside the archive
    MaxCues        \* MAX_CUES

NoSrc == <<"", "">>
NoClock == [fields |-> <<>>, unit |-> ""]
Scale == [ms |-> 1, s |-> 1000, min |-> 60000, h |-> 3600000]

ASSUME SmilAssumption ==
    /\ MaxCues \in Nat \ {0}
    /\ "" \notin SmilFiles
    /\ \A t \in SmilTags : t.kind \in {"start", "empty"}
    /\ \A t \in SmilTags : \A a \in {"clipBegin", "clipEnd"} \cap DOMAIN t.attrs :
           /\ t.attrs[a].fields \in Seq(Seq(Int))
           /\ t.attrs[a].unit \in DOMAIN Scale \cup {""}
           /\ t.attrs[a].unit # "" => Len(t.attrs[a].fields) = 1

VARIABLES
    cues,       \* the cues finished
    current     \* the cue being read: none, or one

smilState == <<cues, current>>
smilVars == <<xmlVars, smilState>>

\* Mutant: the fields of a clock are added up.
Fold_Sum(fields) == FoldLeft(LAMBDA seconds, field : seconds + field[1], 0, fields)

\* Each field before the last is worth sixty of the next.
Fold(fields) ==
    LET Seconds[n \in 0..Len(fields)] ==
            IF n = 0 THEN 0 ELSE Seconds[n - 1] * 60 + fields[n][1]
    IN  Seconds[Len(fields)]

\* One time, or none when it is not a clock value.
ParseClock(raw) ==
    LET readable == \A i \in DOMAIN raw.fields : raw.fields[i] # <<>> /\ raw.fields[i][1] >= 0
        value == IF raw.unit = "" THEN 1000 * Fold(raw.fields)
                 ELSE raw.fields[1][1] * Scale[raw.unit]
    IN  IF readable /\ Len(raw.fields) \in 1..3 THEN <<value>> ELSE <<>>
Clock(raw) == IF ParseClock(raw) = <<>> THEN 0 ELSE ParseClock(raw)[1]

\* A reference and its fragment, none when it is unusable.
ResolveSrc(raw) == IF raw[1] \in SmilFiles THEN raw ELSE NoSrc

Cue(tag) ==
    [text |-> NoSrc, audio |-> NoSrc, start |-> 0, end |-> 0, id |-> Attribute(tag, "id", "")]

\* Mutant: every cue is kept.
Says_Anything(cue) == TRUE

\* Mutant: only a cue with a text is kept.
Says_Text(cue) == cue.text # NoSrc

\* Whether a cue says anything.
Says(cue) == cue.text # NoSrc \/ cue.audio # NoSrc \/ cue.end # 0

Push(list, cue) == IF cue # <<>> /\ Says(cue[1]) THEN Append(list, cue[1]) ELSE list

SmilInit == cues = <<>> /\ current = <<>>

\* The reader stops at the cap.
Reading == Len(cues) < MaxCues

-----------------------------------------------------------------------------
\* Mutant: a par within a par takes the place of the outer one.
Outer_Lost == cues

\* The cues once the open one is finished.
Outer == Push(cues, current)

StartPar(tag) ==
    /\ tag.name = "par"
    /\ cues' = Outer
    /\ current' = <<Cue(tag)>>

StartText(tag) ==
    /\ tag.name = "text"
    /\ current' = [i \in DOMAIN current |-> [current[i] EXCEPT
            !.text = ResolveSrc(Attribute(tag, "src", NoSrc))]]
    /\ UNCHANGED cues

StartAudio(tag) ==
    /\ tag.name = "audio"
    /\ current' = [i \in DOMAIN current |-> [current[i] EXCEPT
            !.audio = ResolveSrc(Attribute(tag, "src", NoSrc)),
            !.start = Clock(Attribute(tag, "clipBegin", NoClock)),
            !.end = Clock(Attribute(tag, "clipEnd", NoClock))]]
    /\ UNCHANGED cues

SmilIgnores(tag) == tag.name \notin {"par", "text", "audio"} /\ UNCHANGED smilState

\* Start tags and empty ones are read alike.
SmilStart ==
    /\ Reading
    /\ \E tag \in SmilTags :
           /\ Hand(tag)
           /\ StartPar(tag) \/ StartText(tag) \/ StartAudio(tag) \/ SmilIgnores(tag)

SmilEnd(tag) ==
    /\ Reading
    /\ Hand(tag)
    /\ IF tag.name = "par" THEN cues' = Push(cues, current) /\ current' = <<>>
                           ELSE UNCHANGED smilState

\* What parse_overlay returns when the document ends, or breaks, here.
Overlay == Push(cues, current)

\* When the last cue ends.
DurationMs ==
    LET Latest[n \in 0..Len(Overlay)] ==
            IF n = 0 THEN 0
            ELSE IF Overlay[n].end > Latest[n - 1] THEN Overlay[n].end ELSE Latest[n - 1]
    IN  Latest[Len(Overlay)]

-----------------------------------------------------------------------------
(* What an overlay says.                                                   *)

Pars == Places({"start", "empty"}, {"par"})

\* The texts and audios of a par, and the last of them.
Members(i, name) == {j \in Places({"start", "empty"}, {name}) : Nearest(j, {"par"}) = i}
LastOf(i, name) ==
    IF Members(i, name) = {} THEN Tag("empty", name, NoAttrs) ELSE doc[Greatest(Members(i, name))]

\* Hours, minutes and seconds; minutes and seconds; or a number and a unit.
Milliseconds(raw) ==
    LET n == [i \in DOMAIN raw.fields |-> raw.fields[i][1]]
        unit == IF raw.unit = "" THEN "s" ELSE raw.unit
    IN  IF <<>> \in Range(raw.fields) \/ \E i \in DOMAIN n : n[i] < 0 THEN 0
        ELSE CASE Len(n) = 1 -> n[1] * Scale[unit]
               [] Len(n) = 2 -> (60 * n[1] + n[2]) * Scale["s"]
               [] Len(n) = 3 -> (3600 * n[1] + 60 * n[2] + n[3]) * Scale["s"]
               [] OTHER -> 0

WrittenCue(i) ==
    LET audio == LastOf(i, "audio")
    IN  [text |-> ResolveSrc(Attribute(LastOf(i, "text"), "src", NoSrc)),
         audio |-> ResolveSrc(Attribute(audio, "src", NoSrc)),
         start |-> Milliseconds(Attribute(audio, "clipBegin", NoClock)),
         end |-> Milliseconds(Attribute(audio, "clipEnd", NoClock)),
         id |-> Attribute(doc[i], "id", "")]

\* What a par says it says before any par within it, and no par is empty.
OuterFirst ==
    /\ Places({"empty"}, {"par"}) = {}
    /\ \A j \in Places({"start", "empty"}, {"text", "audio"}) :
           Enclosing(j, {"par"}) # {} => Nearest(j, {"par"}) = Greatest({i \in Pars : i < j})

\* A cue that says nothing.
Silent(cue) == cue.text = NoSrc /\ cue.audio = NoSrc /\ cue.end = 0

\* The cues at the places up to n that say something, in their order.
Narrated(written, n) ==
    LET Cues[k \in 0..n] ==
            IF k = 0 THEN <<>>
            ELSE IF k \in DOMAIN written /\ ~Silent(written[k])
                 THEN Append(Cues[k - 1], written[k]) ELSE Cues[k - 1]
    IN  Cues[n]

(***************************************************************************)
(* Wherever an overlay ends or breaks, its cues are the pars that narrate  *)
(* something, in order and up to the cap, each with its own text, audio    *)
(* and times, a par not closed yet and one with a par within it included   *)
(* (smil.rs parse_overlay and push).                                       *)
(***************************************************************************)
CuesAreWritten ==
    OuterFirst =>
        LET said == Narrated([i \in Pars |-> WrittenCue(i)], Len(doc))
        IN  Overlay = SubSeq(said, 1, IF Len(said) < MaxCues THEN Len(said) ELSE MaxCues)

(***************************************************************************)
(* However an overlay is written, no more than MAX_CUES cues are returned, *)
(* though the last is kept after the loop that counts them ended, and none *)
(* that was returned ends after the narration (smil.rs MAX_CUES, push,     *)
(* duration_ms).                                                           *)
(***************************************************************************)
CuesBounded ==
    /\ Len(Overlay) <= MaxCues
    /\ \A i \in DOMAIN Overlay : Overlay[i].end <= DurationMs
=============================================================================
