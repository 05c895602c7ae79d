------------------------------- MODULE UriProofs -------------------------------
(***************************************************************************)
(* Theorems about Uri: of a URI that was accepted, the client dials the    *)
(* host and the port that were checked.                                    *)
(***************************************************************************)
EXTENDS Uri, TLAPS

\* Where two loops that look for the same start from the same place, they end together.
LEMMA EndsOnce ==
    ASSUME NEW u \in Seq(Class), NEW f \in Nat, NEW C, NEW i, NEW j,
           Ends(u, f, C, i), Ends(u, f, C, j)
    PROVE  i = j
<1>1. i \in Nat /\ j \in Nat /\ Len(u) \in Nat
  BY DEF Ends
<1>2. ~(i < j)
  BY <1>1 DEF Ends
<1>3. ~(j < i)
  BY <1>1 DEF Ends
<1> QED
  BY <1>1, <1>2, <1>3

\* setUrl takes for the host what validate_ws_uri found to be a host name, and sees a
\* port where validate_ws_uri did.
THEOREM SameHost ==
    ASSUME NEW u \in Seq(Class), NEW hostEnd, NEW portEnd, NEW slash, NEW colon,
           LoopsEnd(u, hostEnd, portEnd), Found(u, slash, colon)
    PROVE  /\ HostLimit(u, slash, colon) = hostEnd
           /\ ExplicitPort(u, slash, colon) <=>
                IsThere(u, hostEnd) /\ u[hostEnd] = "colon"
<1>1. /\ hostEnd \in Nat /\ slash \in Nat /\ colon \in Nat /\ Len(u) \in Nat
      /\ hostEnd >= 1 /\ slash >= 1 /\ colon >= 1
  BY DEF LoopsEnd, Found, Ends
<1>2. hostEnd <= slash /\ hostEnd <= colon
  BY <1>1 DEF LoopsEnd, Found, Ends
<1>3. CASE ~IsThere(u, hostEnd)
  BY <1>1, <1>2, <1>3 DEF LoopsEnd, Found, Ends, IsThere, ExplicitPort, HostLimit
<1>4. CASE IsThere(u, hostEnd) /\ u[hostEnd] = "colon"
  <2>1. colon = hostEnd
    BY <1>1, <1>2, <1>4 DEF Found, Ends, IsThere
  <2>2. slash # hostEnd
    BY <1>1, <1>4 DEF Found, Ends, IsThere
  <2> QED
    BY <1>1, <1>2, <1>4, <2>1, <2>2 DEF IsThere, ExplicitPort, HostLimit
<1>5. CASE IsThere(u, hostEnd) /\ u[hostEnd] = "slash"
  <2>1. slash = hostEnd
    BY <1>1, <1>2, <1>5 DEF Found, Ends, IsThere
  <2>2. colon # hostEnd
    BY <1>1, <1>5 DEF Found, Ends, IsThere
  <2> QED
    BY <1>1, <1>2, <1>5, <2>1, <2>2 DEF IsThere, ExplicitPort, HostLimit
<1>6. IsThere(u, hostEnd) => u[hostEnd] = "colon" \/ u[hostEnd] = "slash"
  BY <1>1 DEF LoopsEnd, Ends, IsThere
<1> QED
  BY <1>3, <1>4, <1>5, <1>6

\* The text from the colon to the path, all of it, is the port that setUrl has atoi read.
THEOREM SamePort ==
    ASSUME NEW u \in Seq(Class), NEW hostEnd, NEW portEnd, NEW slash, NEW colon, NEW i,
           LoopsEnd(u, hostEnd, portEnd), Found(u, slash, colon),
           ValidUri(u, hostEnd, portEnd),
           ExplicitPort(u, slash, colon), AtoiEnds(u, colon, i)
    PROVE  i = portEnd /\ portEnd = slash
<1>1. colon = hostEnd /\ IsThere(u, hostEnd) /\ u[hostEnd] = "colon"
  BY SameHost DEF HostLimit
<1>2. Ends(u, colon + 1, {"slash"}, portEnd)
  BY <1>1 DEF LoopsEnd
<1>3. /\ colon \in Nat /\ slash \in Nat /\ portEnd \in Nat /\ Len(u) \in Nat /\ i \in Nat
      /\ colon >= 1 /\ colon < portEnd /\ colon < slash
  <2>1. colon \in Nat /\ slash \in Nat /\ Len(u) \in Nat /\ colon >= 1
    BY DEF Found, Ends
  <2>2. portEnd \in Nat /\ colon < portEnd
    BY <1>2, <2>1 DEF Ends
  <2>3. i \in Nat
    BY <2>1 DEF AtoiEnds, Ends
  <2>4. colon < slash
    BY <1>1, <2>1 DEF ExplicitPort, IsThere, Found, Ends
  <2> QED
    BY <2>1, <2>2, <2>3, <2>4
<1>4. Ends(u, colon + 1, {"slash"}, slash)
  BY <1>3 DEF Found, Ends
<1>5. portEnd = slash
  BY <1>2, <1>3, <1>4, EndsOnce
<1>6. Ends(u, colon + 1, Class \ {"digit"}, portEnd)
  <2>1. \A j \in (colon + 1)..(portEnd - 1) : u[j] = "digit"
    BY <1>1 DEF ValidUri
  <2> QED
    BY <1>2, <2>1 DEF Ends, Class
<1>7. i = portEnd
  BY <1>3, <1>6, EndsOnce DEF AtoiEnds
<1> QED
  BY <1>5, <1>7

\* In the first n characters a loop ends where it did, or at the end of them.
LEMMA PrefixEnds ==
    ASSUME NEW n \in Nat, NEW u \in Seq(Class), NEW v \in Seq(Class),
           Len(v) = n, n < Len(u), \A j \in 1..n : v[j] = u[j],
           NEW f \in 1..(n + 1), NEW C, NEW i, Ends(u, f, C, i)
    PROVE  Ends(v, f, C, IF i <= n THEN i ELSE n + 1)
<1>1. i \in Nat /\ f \in Nat /\ 1 <= f /\ f <= n + 1 /\ f <= i /\ Len(u) \in Nat
  BY DEF Ends
<1>2. CASE i <= n
  <2>1. i \in f..(n + 1)
    BY <1>1, <1>2
  <2>2. v[i] \in C
    BY <1>1, <1>2 DEF Ends
  <2>3. \A j \in f..(i - 1) : v[j] \notin C
    BY <1>1, <1>2 DEF Ends
  <2> QED
    BY <1>2, <2>1, <2>2, <2>3 DEF Ends
<1>3. CASE ~(i <= n)
  <2>1. ASSUME NEW j \in f..n
        PROVE  v[j] \notin C
    <3>1. j \in 1..n /\ j \in f..(i - 1)
      BY <1>1, <1>3
    <3>2. u[j] \notin C
      BY <3>1 DEF Ends
    <3> QED
      BY <3>1, <3>2
  <2>2. n + 1 \in f..(n + 1) /\ ~(n + 1 <= n) /\ (n + 1) - 1 = n
    BY <1>1
  <2> QED
    BY <1>3, <2>1, <2>2 DEF Ends
<1> QED
  BY <1>2, <1>3

\* A URI longer than wsUri, cut off by strncpy, is still one that validate_ws_uri accepts:
\* setUrl is never given a host with other characters than those of a name, nor none.
THEOREM CutOffStaysValid ==
    ASSUME NEW u \in Seq(Class), NEW hostEnd, NEW portEnd, NEW n \in Nat \ {0},
           LoopsEnd(u, hostEnd, portEnd), ValidUri(u, hostEnd, portEnd)
    PROVE  \E e, p : LoopsEnd(CutOff(u, n), e, p) /\ ValidUri(CutOff(u, n), e, p)
<1>1. CASE n >= Len(u)
  BY <1>1 DEF CutOff
<1>2. CASE n < Len(u)
  <2> DEFINE v == SubSeq(u, 1, n)
  <2>1. /\ Len(v) = n /\ v \in Seq(Class)
        /\ \A j \in 1..n : v[j] = u[j]
    BY <1>2
  <2>2. CutOff(u, n) = v
    BY <1>2 DEF CutOff
  <2>3. /\ hostEnd \in Nat /\ hostEnd > 1 /\ portEnd \in Nat /\ hostEnd <= portEnd
        /\ Len(u) \in Nat
    BY DEF LoopsEnd, ValidUri, Ends
  <2>4. Ends(u, 1, {"colon", "slash"}, hostEnd)
    BY DEF LoopsEnd
  <2> HIDE DEF v
  <2>5. Ends(v, 1, {"colon", "slash"}, IF hostEnd <= n THEN hostEnd ELSE n + 1)
    BY <1>2, <2>1, <2>4, PrefixEnds
  <2>6. CASE hostEnd > n
    <3>1. Ends(v, 1, {"colon", "slash"}, n + 1)
      BY <2>3, <2>5, <2>6
    <3>2. LoopsEnd(v, n + 1, n + 1)
      BY <2>1, <3>1 DEF LoopsEnd, IsThere
    <3>3. ValidUri(v, n + 1, n + 1)
      <4>1. \A j \in 1..n : v[j] \in HostClass
        BY <2>1, <2>3, <2>6 DEF ValidUri
      <4>2. (n + 1) - 1 = n /\ n + 1 > 1 /\ ((n + 1) + 1)..((n + 1) - 1) = {}
        OBVIOUS
      <4> QED
        BY <4>1, <4>2 DEF ValidUri
    <3> QED
      BY <2>2, <3>2, <3>3
  <2>7. CASE hostEnd <= n /\ u[hostEnd] # "colon"
    <3>1. Ends(v, 1, {"colon", "slash"}, hostEnd) /\ v[hostEnd] # "colon"
      BY <2>1, <2>3, <2>5, <2>7
    <3>2. LoopsEnd(v, hostEnd, hostEnd)
      BY <3>1 DEF LoopsEnd
    <3>3. ValidUri(v, hostEnd, hostEnd)
      <4>1. \A j \in 1..(hostEnd - 1) : v[j] \in HostClass
        BY <2>1, <2>3, <2>7 DEF ValidUri
      <4>2. (hostEnd + 1)..(hostEnd - 1) = {}
        BY <2>3
      <4> QED
        BY <2>3, <4>1, <4>2 DEF ValidUri
    <3> QED
      BY <2>2, <3>2, <3>3
  <2>8. CASE hostEnd <= n /\ u[hostEnd] = "colon"
    <3> DEFINE p == IF portEnd <= n THEN portEnd ELSE n + 1
    <3>1. /\ Ends(v, 1, {"colon", "slash"}, hostEnd)
          /\ v[hostEnd] = "colon" /\ IsThere(v, hostEnd) /\ IsThere(u, hostEnd)
      BY <1>2, <2>1, <2>3, <2>5, <2>8 DEF IsThere
    <3>2. Ends(u, hostEnd + 1, {"slash"}, portEnd)
      BY <2>8, <3>1 DEF LoopsEnd
    <3>3. hostEnd + 1 \in 1..(n + 1)
      BY <2>3, <2>8
    <3>4. Ends(v, hostEnd + 1, {"slash"}, p)
      BY <1>2, <2>1, <3>2, <3>3, PrefixEnds
    <3>5. LoopsEnd(v, hostEnd, p)
      BY <3>1, <3>4 DEF LoopsEnd
    <3>6. ValidUri(v, hostEnd, p)
      <4>1. \A j \in 1..(hostEnd - 1) : v[j] \in HostClass
        BY <2>1, <2>3, <2>8 DEF ValidUri
      <4>2. \A j \in (hostEnd + 1)..(p - 1) : v[j] = "digit"
        BY <2>1, <2>3 DEF ValidUri
      <4> QED
        BY <2>3, <4>1, <4>2 DEF ValidUri
    <3> QED
      BY <2>2, <3>5, <3>6
  <2> QED
    BY <2>3, <2>6, <2>7, <2>8
<1> QED
  BY <1>1, <1>2

=============================================================================
