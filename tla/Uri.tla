---------------------------------- MODULE Uri ----------------------------------
(***************************************************************************)
(* The URI of the peer, as two functions read it: validate_ws_uri          *)
(* (stream_utils.cpp) decides whether a start goes on, setUrl              *)
(* (ws_client.cpp) takes host, port and path out of it to dial.  They were *)
(* written separately.  UriProofs says that they agree, and that a URI     *)
(* that is cut off to fit the buffer stays valid.                          *)
(*                                                                         *)
(* Both recognise the scheme in the same way; u is the text behind it, a   *)
(* sequence of classes of characters.  A loop over the text, or a strchr,  *)
(* ends at the first character of some class: the place where it ended is  *)
(* an argument of the definitions below.                                   *)
(***************************************************************************)
EXTENDS Naturals, Sequences

\* "letter" stands for letters, '-', '.' and '_'.
Class == {"letter", "digit", "colon", "slash", "other"}

\* i is the first place from f on with a character in C, or the end of the text.
Ends(u, f, C, i) ==
    /\ i \in f..(Len(u) + 1)
    /\ i <= Len(u) => u[i] \in C
    /\ \A j \in f..(i - 1) : u[j] \notin C

IsThere(u, i) == i <= Len(u)

-----------------------------------------------------------------------------
(* validate_ws_uri *)

HostClass == {"letter", "digit"}

\* hostEnd, and where the loop over the port ends if there is a colon.
LoopsEnd(u, hostEnd, portEnd) ==
    /\ Ends(u, 1, {"colon", "slash"}, hostEnd)
    /\ IF IsThere(u, hostEnd) /\ u[hostEnd] = "colon"
       THEN Ends(u, hostEnd + 1, {"slash"}, portEnd)
       ELSE portEnd = hostEnd

ValidUri(u, hostEnd, portEnd) ==
    /\ \A j \in 1..(hostEnd - 1) : u[j] \in HostClass
    /\ hostEnd > 1
    /\ \A j \in (hostEnd + 1)..(portEnd - 1) : u[j] = "digit"

\* strncpy to wsUri: what is left of u when the buffer has room for n characters of it.
CutOff(u, n) == IF n < Len(u) THEN SubSeq(u, 1, n) ELSE u

-----------------------------------------------------------------------------
(* setUrl: strchr for the first slash and the first colon *)

Found(u, slash, colon) ==
    Ends(u, 1, {"slash"}, slash) /\ Ends(u, 1, {"colon"}, colon)

ExplicitPort(u, slash, colon) ==
    IsThere(u, colon) /\ (~IsThere(u, slash) \/ colon < slash)

\* The place behind the host.
HostLimit(u, slash, colon) == IF ExplicitPort(u, slash, colon) THEN colon ELSE slash

\* atoi reads digits from behind the colon to the first character that is none.
AtoiEnds(u, colon, i) ==
    Ends(u, colon + 1, Class \ {"digit"}, i)

=============================================================================
