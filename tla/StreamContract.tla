--------------------------- MODULE StreamContract ---------------------------
(***************************************************************************)
(* What epub_service.proto promises of a response stream: one info; then   *)
(* at most one navigation and any media overlays; then chapters in spine   *)
(* order interleaved with resources in archive order; then one status,     *)
(* which comes only when every announced chapter has gone out.  A stream   *)
(* that fails may do so at any point and has no status.                    *)
(***************************************************************************)
EXTENDS Naturals

VARIABLES
    stage,       \* before, front, body, complete or failed
    announced,   \* EpubInfo.spine_item_count
    navigated,   \* whether a navigation event went out
    overlays,    \* how many media_overlay events went out
    chapters,    \* how many chapter events went out
    reached      \* archive position of the last resource event

vars == <<stage, announced, navigated, overlays, chapters, reached>>

Init ==
    /\ stage = "before"
    /\ announced = 0
    /\ navigated = FALSE
    /\ overlays = 0
    /\ chapters = 0
    /\ reached = 0

Info ==
    /\ stage = "before"
    /\ stage' = "front"
    /\ announced' \in Nat \ {0}
    /\ UNCHANGED <<navigated, overlays, chapters, reached>>

Navigation ==
    /\ stage = "front"
    /\ ~navigated
    /\ navigated' = TRUE
    /\ UNCHANGED <<stage, announced, overlays, chapters, reached>>

MediaOverlay ==
    /\ stage = "front"
    /\ overlays' = overlays + 1
    /\ UNCHANGED <<stage, announced, navigated, chapters, reached>>

Chapter ==
    /\ stage \in {"front", "body"}
    /\ chapters < announced
    /\ stage' = "body"
    /\ chapters' = chapters + 1
    /\ UNCHANGED <<announced, navigated, overlays, reached>>

Resource ==
    /\ stage \in {"front", "body"}
    /\ stage' = "body"
    /\ reached' \in Nat
    /\ reached < reached'
    /\ UNCHANGED <<announced, navigated, overlays, chapters>>

Status ==
    /\ stage = "body"
    /\ chapters = announced
    /\ stage' = "complete"
    /\ UNCHANGED <<announced, navigated, overlays, chapters, reached>>

Failure ==
    /\ stage \in {"before", "front", "body"}
    /\ stage' = "failed"
    /\ UNCHANGED <<announced, navigated, overlays, chapters, reached>>

Next == Info \/ Navigation \/ MediaOverlay \/ Chapter \/ Resource \/ Status \/ Failure

Spec == Init /\ [][Next]_vars
=============================================================================
