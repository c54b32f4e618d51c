---------------------------- MODULE MCPreferences ---------------------------
(***************************************************************************)
(* Two mixes of requests, one chosen at the start: on pages, users and      *)
(* their rows, over two users, two pages and two fields; and on the site's  *)
(* name, flag and images, over both slots.  Two requests overlap, with two  *)
(* failures (a failing read or write, or a crash).                          *)
(***************************************************************************)
EXTENDS Preferences, TLC

VARIABLE mix

MCInit == PreferencesInit /\ mix \in {"rows", "branding"} /\ (mix = "branding" => pages = {})

\* The requests of one mix touch nothing of the other's.
Asked == {call'[c].at : c \in {d \in Calls : call[d] = Idle}}
OfTheMix ==
    IF mix = "rows" THEN branding' = branding
    ELSE <<owners, settings, cleanup>>' = <<owners, settings, cleanup>> /\ Asked \subseteq {"idle", "image", "save"}

MCSpec == MCInit /\ [][PreferencesNext /\ OfTheMix /\ UNCHANGED mix]_<<preferencesVars, mix>>

MCSymmetry == UNION {Permutations(S) : S \in {Calls, Users, Pages, Fields, Values, Slots, Exts}}
=============================================================================
