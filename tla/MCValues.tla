------------------------------ MODULE MCValues ------------------------------
(***************************************************************************)
(* The parts of the server that are functions of their input, side by      *)
(* side: the limits, the paths and the dates.  Which of them a behaviour   *)
(* looks at is chosen at its start, and the others rest.                   *)
(*                                                                         *)
(* The calendar is walked from 0001, across 1900 and 2000, and up to the   *)
(* end of 9999; a byte count has 8 bits, an option 4.                      *)
(***************************************************************************)
EXTENDS Limits, Href, DateTime

VARIABLE subject

Init ==
    \/ subject = "limits" /\ LimitsInit /\ base = <<>> /\ href = <<>>
         /\ date = <<1970, 1, 1>> /\ days = 0
    \/ subject = "href" /\ HrefInit /\ env = DefaultEnvironment /\ asked = NoPreference
         /\ date = <<1970, 1, 1>> /\ days = 0
    \/ subject = "date" /\ DateInit /\ env = DefaultEnvironment /\ asked = NoPreference
         /\ base = <<>> /\ href = <<>>

Next ==
    \/ subject = "limits" /\ Ask /\ UNCHANGED <<subject, hrefVars, dateVars>>
    \/ subject = "href" /\ WriteToken /\ UNCHANGED <<subject, limitVars, dateVars>>
    \/ subject = "date" /\ NextDay /\ UNCHANGED <<subject, limitVars, hrefVars>>

Spec == Init /\ [][Next]_<<subject, limitVars, hrefVars, dateVars>>

-----------------------------------------------------------------------------
(* The properties, each of the values its subject chooses.                 *)

\* Whatever the environment says and a call asks for, a product that wraps or
\* saturates included: no call gets more than the process allows and none of
\* its caps is none, the budgets and the backstop hold what the caps allow,
\* and what GetServiceInfo advertises is granted (limits.rs from_env, resolve,
\* to_proto; service.rs with_metrics, into_service).
LimitsAgree == subject = "limits" => NeverLooser /\ LimitsFitTogether /\ AdvertisedIsGranted

\* However dots, separators, escapes and base directories are put together: a
\* path that is accepted is normal, one is refused as traversal exactly when
\* it leaves the archive, and an href finds the entry it names (href.rs
\* resolve, normalize, check_entry_name).
PathsAgree == subject = "href" => AcceptedIsNormal /\ TraversalIffEscapes /\ HrefFindsEntry

\* For every day of the calendar: a date is the day it names, an instant is
\* the same at every offset, across days, months and years, and what is not in
\* the calendar is refused (datetime.rs parse).
DatesAgree == subject = "date" => CalendarAgrees /\ OffsetsAgree /\ OnlyRealDates

-----------------------------------------------------------------------------
MCStarts ==
    {[year |-> 1, days |-> -719162], [year |-> 1896, days |-> -27028],
     [year |-> 1970, days |-> 0], [year |-> 1996, days |-> 9496], [year |-> 9995, days |-> 2931071]}

MCTokens == {"a", ".", "/", "\\", "#", ":", "%2e", "%2f", "%23"}
MCBaseDirs == {<<>>, << <<"a">> >>}

MCEnvironments ==
    [document : {0, 1, 20, 64, 200}, uncompressed : {0, 65}, buffered : {0, 1, 4, 255},
     entries : {0, 1, 20}, ratio : {3}, floor : {7}, parses : {0, 1, 100},
     chunk : {0, 255}, idle : {0}]
MCParseOptions ==
    [document : {0, 1, 15}, uncompressed : {0, 2}, entries : {0, 2}, ratio : {9},
     switch : {"unset", "off"}, emit_document : {TRUE}]
=============================================================================
