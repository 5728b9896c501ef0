---------------------------- MODULE SHttpdProofs ----------------------------
(***************************************************************************)
(* What SHttpd promises, for any number of connections, any text and       *)
(* whatever fails.  Of its sessions: each is linked, counted and referred  *)
(* to as it should be, and nobody uses one that is gone.  Of its requests, *)
(* however the text is broken, kept back, cut and joined again: what is    *)
(* still to be read, in the server's buffer and in the socket's, is in the *)
(* order it was sent in, and all of it lies behind what was answered.      *)
(***************************************************************************)
EXTENDS SHttpd, SequenceTheorems, FiniteSetTheorems, TLAPS

-----------------------------------------------------------------------------
(* Sets of numbers: the library's well-founded order gives least elements. *)

Less == {p \in Nat \X Nat : p[1] < p[2]}

LEMMA LessFounded == IsWellFoundedOn(Less, Nat)
BY NatLessThanWellFounded, Zenon DEF OpToRel, Less

LEMMA MinIs ==
    ASSUME NEW S, S \subseteq Nat, S # {}
    PROVE  Min(S) \in S /\ \A y \in S : Min(S) <= y
<1>1. \E x \in S : \A y \in S : ~(<<y, x>> \in Less)
    BY LessFounded, WFMin, Zenon
<1>2. \A x, y \in S : ~(<<y, x>> \in Less) => x <= y
    BY DEF Less
<1>3. \E x \in S : \A y \in S : x <= y
    BY <1>1, <1>2
<1> QED
    BY <1>3 DEF Min

LEMMA MaxIs ==
    ASSUME NEW n \in Nat, NEW S, S \subseteq 0 .. n, S # {}
    PROVE  Max(S) \in S /\ \A y \in S : y <= Max(S)
<1> DEFINE T == {m \in 0 .. n : n - m \in S}
<1>1. T \subseteq Nat /\ T # {}
  <2>1. PICK x \in S : TRUE
    OBVIOUS
  <2>2. x \in 0 .. n /\ n - x \in 0 .. n /\ n - (n - x) = x
    BY <2>1
  <2>3. n - (n - x) \in S
    BY <2>2
  <2>4. n - x \in T
    BY <2>2, <2>3
  <2>5. T \subseteq Nat
    OBVIOUS
  <2> QED
    BY <2>4, <2>5
<1>2. Min(T) \in T /\ \A y \in T : Min(T) <= y
    BY <1>1, MinIs
<1> DEFINE m == Min(T)
<1> HIDE DEF m
<1>3. m \in 0 .. n /\ n - m \in S
    BY <1>2 DEF m
<1>4. ASSUME NEW y \in S PROVE y <= n - m
  <2>1. y \in 0 .. n /\ n - y \in 0 .. n /\ n - (n - y) = y
    BY <1>4
  <2>2. n - y \in T
    BY <2>1
  <2>3. m <= n - y
    BY <1>2, <2>2 DEF m
  <2> QED
    BY <1>3, <2>1, <2>3
<1>5. \E x \in S : \A y \in S : x >= y
  <2>1. \A y \in S : n - m >= y
    BY <1>3, <1>4
  <2> QED
    BY <1>3, <2>1
<1> QED
    BY <1>5 DEF Max

-----------------------------------------------------------------------------
(* Texts are sequences of lines. *)

LEMMA TextType ==
    ASSUME NEW n \in Nat, NEW f \in [1 .. n -> Line]
    PROVE  f \in Seq(Line) /\ Len(f) = n
BY SeqDef

LEMMA PieceType ==
    ASSUME NEW line \in Line, NEW part \in {"all", "front", "back"}
    PROVE  /\ Part(line, part) \in Line
           /\ line.place # 0 => FrontOf(line) \in Line
           /\ FrontOf(line).place = line.place - 1
           /\ FrontOf(line).kind = line.kind /\ FrontOf(line).part = "front"
           /\ Part(line, part).place = line.place
           /\ Part(line, part).kind = line.kind /\ Part(line, part).part = part
<1> DEFINE f == [line EXCEPT !.place = @ - 1]
<1>1. line.place # 0 => f \in Line
    BY DEF Line
<1>2. FrontOf(line) = [f EXCEPT !.part = "front"]
    BY DEF FrontOf, Line
<1>3. f.kind = line.kind /\ f.place = line.place - 1
    BY DEF Line
<1>4. line.place # 0 => [f EXCEPT !.part = "front"] \in Line
    BY <1>1 DEF Line
<1> QED
    BY <1>2, <1>4 DEF Part, FrontOf, Line

(* The library's facts, with the lengths as numbers. *)
LEMMA Lengths ==
    ASSUME NEW s \in Seq(Line)
    PROVE  /\ Len(s) \in Nat /\ DOMAIN s = 1 .. Len(s)
           /\ (s = <<>> <=> Len(s) = 0)
           /\ \A i \in 1 .. Len(s) : s[i] \in Line
BY LenProperties, EmptySeq, ElementOfSeq

LEMMA Behind ==
    ASSUME NEW s \in Seq(Line), NEW t \in Seq(Line)
    PROVE  /\ s \o t \in Seq(Line) /\ Len(s \o t) = Len(s) + Len(t)
           /\ \A i \in 1 .. Len(s) : (s \o t)[i] = s[i]
           /\ \A i \in Len(s) + 1 .. Len(s) + Len(t) : (s \o t)[i] = t[i - Len(s)]
<1> DEFINE m == Len(s)
           n == Len(t)
<1>1. m \in Nat /\ n \in Nat
    BY Lengths
<1>2. /\ s \o t \in Seq(Line) /\ Len(s \o t) = m + n
      /\ \A i \in 1 .. m + n : (s \o t)[i] = IF i <= m THEN s[i] ELSE t[i - m]
    BY ConcatProperties, Zenon
<1> HIDE DEF m, n
<1>3. 1 .. m \subseteq 1 .. m + n /\ m + 1 .. m + n \subseteq 1 .. m + n
    BY <1>1
<1>4. /\ \A i \in 1 .. m : i <= m
      /\ \A i \in m + 1 .. m + n : ~(i <= m)
    BY <1>1
<1> QED
    BY <1>2, <1>3, <1>4, Zenon DEF m, n

LEMMA Joined ==
    ASSUME NEW s \in Seq(Line), NEW t \in Seq(Line), NEW m, NEW n,
           m = Len(s), n = Len(t)
    PROVE  /\ s \o t \in Seq(Line) /\ Len(s \o t) = m + n
           /\ \A i \in 1 .. m : (s \o t)[i] = s[i]
           /\ \A i \in m + 1 .. m + n : (s \o t)[i] = t[i - m]
BY Behind, Zenon

LEMMA Piece ==
    ASSUME NEW s \in Seq(Line), NEW m \in Nat \ {0}, NEW n \in Nat,
           m <= n + 1, n <= Len(s)
    PROVE  /\ SubSeq(s, m, n) \in Seq(Line) /\ Len(SubSeq(s, m, n)) = n + 1 - m
           /\ \A i \in 1 .. n + 1 - m : SubSeq(s, m, n)[i] = s[i + m - 1]
<1> DEFINE l == Len(s)
<1>1. l \in Nat /\ \A i \in 1 .. l : s[i] \in Line
    BY Lengths
<1> HIDE DEF l
<1>2. n <= l
    BY DEF l
<1>3. \A i \in m .. n : s[i] \in Line
    BY <1>1, <1>2
<1>4. /\ SubSeq(s, m, n) \in Seq(Line)
      /\ Len(SubSeq(s, m, n)) = IF m <= n THEN n - m + 1 ELSE 0
      /\ \A i \in 1 .. n - m + 1 : SubSeq(s, m, n)[i] = s[m + i - 1]
  <2>1. m \in Int /\ n \in Int
    OBVIOUS
  <2> QED
    BY <1>3, <2>1, SubSeqProperties, SMTT(30)
<1>5. /\ (IF m <= n THEN n - m + 1 ELSE 0) = n + 1 - m
      /\ n - m + 1 = n + 1 - m
      /\ \A i \in 1 .. n + 1 - m : m + i - 1 = i + m - 1
    OBVIOUS
<1> QED
    BY <1>4, <1>5, Zenon

LEMMA Shifted ==
    ASSUME NEW f, NEW g, NEW k \in Nat, NEW m \in Nat,
           \A j \in k + 1 .. k + m : f[j] = g[j - k]
    PROVE  \A i \in 1 .. m : f[k + i] = g[i]
<1> TAKE i \in 1 .. m
<1> DEFINE j == k + i
<1>1. j \in k + 1 .. k + m /\ j - k = i
    OBVIOUS
<1> HIDE DEF j
<1>2. f[j] = g[j - k]
    BY <1>1
<1>3. f[j] = g[i]
    BY <1>1, <1>2
<1> QED
    BY <1>3 DEF j

(* Whatever Join makes whole, the places stay. *)
JoinedAt(buffer, text, whole, k) ==
    /\ k <= Len(buffer) /\ Len(buffer) <= k + Len(text)
    /\ whole \in Seq(Line) /\ Len(whole) = k + Len(text)
    /\ \A i \in 1 .. k : whole[i] = buffer[i]
    /\ \A i \in 1 .. Len(text) : whole[k + i].place = text[i].place

LEMMA JoinPlaces ==
    ASSUME NEW buffer \in Seq(Line), NEW text \in Seq(Line), Len(text) # 0
    PROVE  \E k \in Nat : JoinedAt(buffer, text, Join(buffer, text), k)
<1> DEFINE b == Len(buffer)
           m == Len(text)
           n == IF b # 0 /\ buffer[b].part = "front" THEN b - 1 ELSE b
<1>0. /\ b = Len(buffer) /\ m = Len(text) /\ m # 0
      /\ n = IF b # 0 /\ buffer[b].part = "front" THEN b - 1 ELSE b
    OBVIOUS
<1> HIDE DEF b, m, n
<1> DEFINE front == Front(buffer)
           middle == <<Part(Head(text), "all")>>
           back == Tail(text)
<1>1. /\ b \in Nat /\ m \in Nat /\ (buffer = <<>> <=> b = 0)
      /\ text # <<>> /\ Head(text) = text[1] /\ Head(text) \in Line
  <2>1. b \in Nat /\ m \in Nat /\ (buffer = <<>> <=> b = 0) /\ text # <<>>
    BY <1>0, Lengths
  <2>2. Head(text) \in Line
    BY <2>1, HeadTailProperties
  <2>3. Head(text) = text[1]
    BY DEF Head
  <2> QED
    BY <2>1, <2>2, <2>3
<1>2. CASE ~(b # 0 /\ buffer[b].part = "front")
  <2>1. Join(buffer, text) = buffer \o text
    BY <1>0, <1>1, <1>2, Zenon DEF Join, Last
  <2>2. /\ buffer \o text \in Seq(Line) /\ Len(buffer \o text) = b + m
        /\ \A i \in 1 .. b : (buffer \o text)[i] = buffer[i]
        /\ \A i \in b + 1 .. b + m : (buffer \o text)[i] = text[i - b]
    BY <1>0, Behind, Zenon
  <2>3. \A i \in 1 .. m : (buffer \o text)[b + i] = text[i]
    BY <1>1, <2>2, Shifted
  <2>4. \A i \in 1 .. m : (buffer \o text)[b + i].place = text[i].place
    BY <2>3
  <2>5. b <= b + m /\ b <= b
    BY <1>1
  <2>6. JoinedAt(buffer, text, Join(buffer, text), b)
    BY <1>0, <2>1, <2>2, <2>4, <2>5, Zenon DEF JoinedAt
  <2> QED
    BY <1>1, <2>6
<1>3. CASE b # 0 /\ buffer[b].part = "front"
  <2>1. Join(buffer, text) = front \o middle \o back /\ n = b - 1
    BY <1>0, <1>1, <1>3, Zenon DEF Join, Last
  <2>2. n \in Nat /\ b = n + 1
    BY <1>1, <1>3, <2>1
  <2>3. /\ front \in Seq(Line) /\ Len(front) = n
        /\ \A i \in 1 .. n : front[i] = buffer[i]
    <3>1. /\ SubSeq(buffer, 1, n) \in Seq(Line)
          /\ Len(SubSeq(buffer, 1, n)) = n + 1 - 1
          /\ \A i \in 1 .. n + 1 - 1 : SubSeq(buffer, 1, n)[i] = buffer[i + 1 - 1]
      <4>1. 1 \in Nat \ {0} /\ 1 <= n + 1 /\ n <= Len(buffer)
        BY <1>0, <2>2
      <4> QED
        BY <2>2, <4>1, Piece
    <3>2. front = SubSeq(buffer, 1, n)
      BY <1>0, <2>1, Zenon DEF Front
    <3> QED
      BY <2>2, <3>1, <3>2
  <2>4. middle \in Seq(Line) /\ Len(middle) = 1 /\ middle[1] = Part(text[1], "all")
    BY <1>1, PieceType
  <2>5. /\ back \in Seq(Line) /\ Len(back) = m - 1
        /\ \A i \in 1 .. m - 1 : back[i] = text[i + 1]
    BY <1>0, <1>1, HeadTailProperties
  <2> DEFINE left == front \o middle
             whole == left \o back
  <2> HIDE DEF front, middle, back
  <2>6. /\ left \in Seq(Line) /\ Len(left) = n + 1
        /\ \A i \in 1 .. n : left[i] = front[i]
        /\ \A i \in n + 1 .. n + 1 : left[i] = middle[i - n]
    <3>1. n = Len(front) /\ 1 = Len(middle)
      BY <2>3, <2>4
    <3>2. /\ left \in Seq(Line) /\ Len(left) = Len(front) + Len(middle)
          /\ \A i \in 1 .. Len(front) : left[i] = front[i]
          /\ \A i \in Len(front) + 1 .. Len(front) + Len(middle) :
                left[i] = middle[i - Len(front)]
      BY <2>3, <2>4, Behind, Zenon
    <3> QED
      BY <3>1, <3>2, Zenon
  <2> HIDE DEF left
  <2>7. /\ whole \in Seq(Line)
        /\ Len(whole) = n + 1 + (m - 1)
        /\ \A i \in 1 .. n + 1 : whole[i] = left[i]
        /\ \A i \in n + 1 + 1 .. n + 1 + (m - 1) :
              whole[i] = back[i - (n + 1)]
    <3>1. n + 1 = Len(left) /\ m - 1 = Len(back)
      BY <2>5, <2>6
    <3>2. /\ whole \in Seq(Line) /\ Len(whole) = Len(left) + Len(back)
          /\ \A i \in 1 .. Len(left) : whole[i] = left[i]
          /\ \A i \in Len(left) + 1 .. Len(left) + Len(back) :
                whole[i] = back[i - Len(left)]
      BY <2>5, <2>6, Behind, Zenon
    <3> QED
      BY <3>1, <3>2, Zenon
  <2> HIDE DEF whole
  <2>8. \A i \in 1 .. n : whole[i] = buffer[i]
    BY <2>2, <2>3, <2>6, <2>7
  <2>9. whole[n + 1] = Part(text[1], "all")
    BY <2>2, <2>4, <2>6, <2>7
  <2>10. \A i \in n + 2 .. n + m : whole[i] = text[i - n]
    <3> TAKE i \in n + 2 .. n + m
    <3>1. /\ i \in n + 1 + 1 .. n + 1 + (m - 1) /\ i - (n + 1) \in 1 .. m - 1
          /\ i - (n + 1) + 1 = i - n
      BY <1>1, <2>2
    <3> QED
      BY <2>5, <2>7, <3>1
  <2>11. \A i \in 1 .. m : whole[n + i].place = text[i].place
    <3> TAKE i \in 1 .. m
    <3>1. CASE i = 1
      BY <1>1, <2>9, <3>1, PieceType
    <3>2. CASE i # 1
      <4> DEFINE j == n + i
      <4>1. j \in n + 2 .. n + m /\ j - n = i
        BY <1>1, <2>2, <3>2
      <4> HIDE DEF j
      <4>2. whole[j] = text[i]
        BY <2>10, <4>1
      <4> QED
        BY <4>2 DEF j
    <3> QED
      BY <3>1, <3>2
  <2>12. n + 1 + (m - 1) = n + m /\ n <= b /\ b <= n + m
    BY <1>0, <1>1, <2>2
  <2>13. whole = Join(buffer, text)
    BY <2>1, Zenon DEF whole, left
  <2>14. JoinedAt(buffer, text, whole, n)
    BY <1>0, <2>7, <2>8, <2>11, <2>12, Zenon DEF JoinedAt
  <2> QED
    BY <2>2, <2>13, <2>14
<1> QED
    BY <1>2, <1>3

-----------------------------------------------------------------------------
(* The types hold with what they rest on: an answer lies within the buffer, and
   there is a place before each whole line, for its front. *)

Within ==
    \A c \in Conns : /\ at[c] <= Len(data[c])
                     /\ input[c] = "respond" => at[c] # 0

Numbered ==
    \A c \in Conns : \A i \in 1 .. Len(stream[c]) : stream[c][i].place # 0

TypeInv == TypeOK /\ Within /\ Numbered

LEMMA TypeInit == Init => TypeInv
<1> SUFFICES ASSUME Init PROVE TypeInv
    OBVIOUS
<1>1. <<>> \in Seq(Line) /\ <<>> \in Seq(Answer) /\ Len(<<>>) = 0
    BY EmptySeq
<1>2. Blank \in Request
    BY DEF Blank, Request, Codes, Known
<1>3. TypeOK
  <2>1. \A v, S : v \in S => Each(v) \in [Conns -> S]
    BY DEF Each
  <2>2. /\ Each("none") \in [Conns -> {"none", "armed", "deleted", "closed"}]
        /\ Each("none") \in [Conns -> {"none", "live", "freed"}]
        /\ Each(FALSE) \in [Conns -> BOOLEAN] /\ Each(0) \in [Conns -> Nat]
        /\ Each(<<>>) \in [Conns -> Seq(Line)]
        /\ Each(<<>>) \in [Conns -> Seq(Answer)]
        /\ Each(Blank) \in [Conns -> Request]
        /\ Each("idle") \in [Conns -> {"idle", "recv", "call", "hold", "fetch", "parse",
                                       "respond", "drop", "return"}]
        /\ Each("idle") \in [Conns -> {"idle", "drop"}]
    BY <1>1, <1>2, <2>1
  <2> QED
    BY <2>2 DEF Init, TypeOK
<1>4. \A c \in Conns : /\ data[c] = <<>> /\ stream[c] = <<>>
                       /\ at[c] = 0 /\ input[c] = "idle"
    BY DEF Init, Each
<1>5. Within
    BY <1>1, <1>4 DEF Within
<1>6. Numbered
    BY <1>1, <1>4 DEF Numbered
<1> QED
    BY <1>3, <1>5, <1>6 DEF TypeInv

(* Cutting a text leaves its lines where they are. *)
LEMMA CutLine ==
    ASSUME NEW line \in Line, NEW b \in BOOLEAN
    PROVE  LET new == [line EXCEPT !.cut = b] IN
           /\ new \in Line /\ new.kind = line.kind
           /\ new.place = line.place /\ new.part = line.part
BY DEF Line

LEMMA CutIs ==
    ASSUME TypeOK, NEW c \in Conns, NEW n
    PROVE  /\ CutTo(c, n) \in Seq(Line) /\ Len(CutTo(c, n)) = Len(data[c])
           /\ \A i \in 1 .. Len(data[c]) :
                /\ CutTo(c, n)[i].kind = data[c][i].kind
                /\ CutTo(c, n)[i].place = data[c][i].place
                /\ CutTo(c, n)[i].part = data[c][i].part
<1> DEFINE text == data[c]
           l == Len(text)
           cut(i) == text[i].cut \/ (i \in at[c] + 1..n /\ text[i].part # "front")
<1>1. text \in Seq(Line)
    BY DEF TypeOK
<1>2. l \in Nat /\ DOMAIN text = 1 .. l /\ \A i \in 1 .. l : text[i] \in Line
    BY <1>1, Lengths
<1>3. CutTo(c, n) = [i \in 1 .. l |-> [text[i] EXCEPT !.cut = cut(i)]]
    BY <1>2 DEF CutTo
<1> HIDE DEF l, text
<1>4. ASSUME NEW i \in 1 .. l
      PROVE  LET new == [text[i] EXCEPT !.cut = cut(i)] IN
             /\ new \in Line /\ new.kind = text[i].kind
             /\ new.place = text[i].place /\ new.part = text[i].part
    <2> DEFINE b == cut(i)
    <2>1. b \in BOOLEAN
      BY <1>2 DEF Line
    <2>2. text[i] \in Line
      BY <1>2, <1>4
    <2> QED
      BY <2>1, <2>2, CutLine, Zenon
<1>5. CutTo(c, n) \in [1 .. l -> Line]
    BY <1>3, <1>4, Zenon
<1>6. CutTo(c, n) \in Seq(Line) /\ Len(CutTo(c, n)) = l
    BY <1>2, <1>5, TextType
<1> QED
    BY <1>3, <1>4, <1>6, Zenon DEF l, text

LEMMA LastLineIs ==
    ASSUME TypeOK, NEW c \in Conns, at[c] < Len(data[c])
    PROVE  LastLine(c) \in at[c] + 1 .. Len(data[c])
<1> DEFINE l == Len(data[c])
           a == at[c]
<1>1. data[c] \in Seq(Line) /\ a \in Nat
    BY DEF TypeOK
<1>2. l \in Nat /\ DOMAIN data[c] = 1 .. l
    BY <1>1, Lengths
<1> HIDE DEF l, a
<1>3. a < l
    BY DEF l, a
<1>4. Cuts(c) \subseteq a + 1 .. l
    BY <1>1, <1>2 DEF Cuts, a
<1>5. a + 1 .. l \subseteq Nat
    BY <1>1, <1>2
<1>6. Cuts(c) # {} => Min(Cuts(c)) \in a + 1 .. l
    BY <1>4, <1>5, MinIs, Zenon
<1>7. l \in a + 1 .. l
    BY <1>1, <1>2, <1>3
<1> QED
    BY <1>6, <1>7, Zenon DEF LastLine, l, a

LEMMA PlaceOfType ==
    ASSUME TypeOK, NEW c \in Conns, NEW S, S \subseteq 1 .. Len(data[c]), NEW old \in Nat
    PROVE  /\ PlaceOf(c, S, old) \in Nat
           /\ PlaceOf(c, S, old) = old \/ \E i \in S : PlaceOf(c, S, old) = data[c][i].place
<1> DEFINE l == Len(data[c])
<1>1. data[c] \in Seq(Line)
    BY DEF TypeOK
<1>2. l \in Nat /\ \A i \in 1 .. l : data[c][i] \in Line
    BY <1>1, Lengths
<1>3. S \subseteq 0 .. l /\ S \subseteq 1 .. l
  <2> HIDE DEF l
  <2>1. 1 .. l \subseteq 0 .. l
    BY <1>2
  <2> QED
    BY <2>1 DEF l
<1>4. S # {} => Max(S) \in S
    BY <1>2, <1>3, MaxIs, Zenon
<1>5. S # {} => data[c][Max(S)] \in Line
    BY <1>2, <1>3, <1>4, Zenon
<1>6. S # {} => data[c][Max(S)].place \in Nat
    BY <1>5 DEF Line
<1> QED
    BY <1>4, <1>6, Zenon DEF PlaceOf

LEMMA ParsedType ==
    ASSUME TypeOK, NEW c \in Conns, at[c] < Len(data[c]),
           NEW n \in Nat, n <= Len(data[c])
    PROVE  Parsed(c, n) \in Request
<1> DEFINE l == Len(data[c])
           a == at[c]
           keep == PlaceOf(c, Found(c, "keep", n), hreq[c].keep)
           field == PlaceOf(c, Found(c, "field", n), hreq[c].field)
           req == data[c][a + 1].place
           qstr == IF data[c][a + 1].kind = "ask" THEN req ELSE hreq[c].qstr
<1>1. data[c] \in Seq(Line) /\ a \in Nat /\ hreq[c] \in Request
    BY DEF TypeOK
<1>2. l \in Nat /\ \A i \in 1 .. l : data[c][i] \in Line
    BY <1>1, Lengths
<1>3. /\ a + 1 \in 1 .. l
      /\ \A kind : Found(c, kind, n) \subseteq 1 .. l
  <2> HIDE DEF l, a
  <2>1. a < l /\ n <= l
    BY DEF l, a
  <2>2. \A kind : Found(c, kind, n) \subseteq a + 2 .. n
    BY DEF Found, a
  <2>3. a + 2 .. n \subseteq 1 .. l
    BY <1>1, <1>2, <2>1
  <2> QED
    BY <1>1, <1>2, <2>1, <2>2, <2>3
<1>4. data[c][a + 1] \in Line
    BY <1>2, <1>3
<1>5. req \in Nat
    BY <1>4 DEF Line
<1>6. hreq[c].keep \in Nat /\ hreq[c].field \in Nat
    BY <1>1 DEF Request
<1>7. keep \in Nat /\ field \in Nat
    BY <1>3, <1>6, PlaceOfType
<1>8. Parsed(c, n) = [hreq[c] EXCEPT !.req = req, !.qstr = qstr, !.keep = keep,
                                  !.field = field]
    BY DEF Parsed
<1>9. qstr \in Nat
    BY <1>1, <1>5 DEF Request
<1> HIDE DEF req, qstr, keep, field
<1> QED
    BY <1>1, <1>5, <1>7, <1>8, <1>9 DEF Request

(* What is sent lies behind what was sent before. *)
LEMMA SendIs ==
    ASSUME TypeOK, NEW c \in Conns, NEW seg \in Segments, Send(c, seg)
    PROVE  /\ stream' \in [Conns -> Seq(Line)]
           /\ Len(seg) \in Nat
           /\ Len(stream'[c]) = Len(stream[c]) + Len(seg)
           /\ \A i \in 1 .. Len(stream[c]) : stream'[c][i] = stream[c][i]
           /\ \A i \in Len(stream[c]) + 1 .. Len(stream[c]) + Len(seg) :
                 stream'[c][i].place = 2 * (place[c] + (i - Len(stream[c])))
           /\ \A d \in Conns \ {c} : stream'[d] = stream[d]
<1> DEFINE S == stream[c]
           l == Len(S)
           g == Len(seg)
           text == [i \in DOMAIN seg |-> [kind |-> seg[i], place |-> 2 * (place[c] + i),
                                          part |-> "all", cut |-> FALSE]]
<1>1. S \in Seq(Line) /\ stream \in [Conns -> Seq(Line)] /\ place[c] \in Nat
    BY DEF TypeOK
<1>2. g \in Nat /\ DOMAIN seg = 1 .. g /\ \A i \in 1 .. g : seg[i] \in Kinds
    BY SHttpdAssumption, LenProperties, ElementOfSeq
<1>3. l \in Nat
    BY <1>1, Lengths
<1>4. stream' = [stream EXCEPT ![c] = S \o text]
    BY DEF Send
<1> HIDE DEF g, l, S
<1>5. ASSUME NEW i \in 1 .. g
      PROVE  [kind |-> seg[i], place |-> 2 * (place[c] + i),
              part |-> "all", cut |-> FALSE] \in Line
  <2>1. 2 * (place[c] + i) \in Nat
    BY <1>1, <1>2
  <2> HIDE DEF S
  <2> QED
    BY <1>2, <1>5, <2>1 DEF Line
<1>6. text \in [1 .. g -> Line]
    BY <1>2, <1>5
<1>7. text \in Seq(Line) /\ Len(text) = g
    BY <1>2, <1>6, TextType
<1>8. \A i \in 1 .. g : text[i].place = 2 * (place[c] + i)
    BY <1>2
<1> HIDE DEF text
<1>9. /\ S \o text \in Seq(Line) /\ Len(S \o text) = l + g
      /\ \A i \in 1 .. l : (S \o text)[i] = S[i]
      /\ \A i \in l + 1 .. l + g : (S \o text)[i] = text[i - l]
    BY <1>1, <1>7, Joined DEF l
<1>10. \A i \in l + 1 .. l + g : i - l \in 1 .. g
    BY <1>2, <1>3
<1>11. \A i \in l + 1 .. l + g : (S \o text)[i].place = 2 * (place[c] + (i - l))
    BY <1>8, <1>9, <1>10
<1>12. /\ stream'[c] = S \o text
       /\ \A d \in Conns \ {c} : stream'[d] = stream[d]
       /\ stream' \in [Conns -> Seq(Line)]
    BY <1>1, <1>4, <1>9
<1> QED
    BY <1>2, <1>9, <1>11, <1>12 DEF S, l, g

(* What recv takes: up to place k the buffer stays; behind it come the lines taken
   and the front of a broken one, whose back stays in the stream. *)
Taken(c, n, k, m) ==
    LET D == data[c]
        S == stream[c]
    IN /\ k <= Len(D) /\ Len(D) <= k + m /\ n <= Len(S)
       /\ Len(data'[c]) = k + m /\ Len(stream'[c]) = Len(S) - n
       /\ m = n \/ /\ m = n + 1 /\ m <= Len(S) /\ S[m].part = "all"
                   /\ stream'[c][1].part = "back"
       /\ \A i \in 1 .. k : data'[c][i] = D[i]
       /\ \A i \in 1 .. m : data'[c][k + i].place =
                              IF i <= n THEN S[i].place ELSE S[i].place - 1
       /\ \A i \in 1 .. Len(S) - n :
            /\ stream'[c][i].place = S[n + i].place
            /\ stream'[c][i].part = "all" => S[n + i].part = "all"

LEMMA ReceiveIs ==
    ASSUME TypeInv, NEW c \in Conns, NEW n \in 0 .. Len(stream[c]),
           NEW broken \in BOOLEAN, Receive(c, n, broken)
    PROVE  /\ {stream', data'} \subseteq [Conns -> Seq(Line)]
           /\ \A d \in Conns \ {c} : stream'[d] = stream[d] /\ data'[d] = data[d]
           /\ \E k \in Nat, m \in Nat \ {0} : Taken(c, n, k, m)
<1> DEFINE D == data[c]
           S == stream[c]
           l == Len(S)
           b == Len(D)
           rest == SubSeq(S, n + 1, l)
           text == SubSeq(S, 1, n)
<1>1. /\ {stream, data} \subseteq [Conns -> Seq(Line)]
      /\ D \in Seq(Line) /\ S \in Seq(Line)
    BY DEF TypeInv, TypeOK
<1>2. /\ l \in Nat /\ b \in Nat
      /\ \A i \in 1 .. l : S[i] \in Line /\ S[i].place # 0
    BY <1>1, Lengths DEF TypeInv, Numbered
<1>3. n \in Nat /\ n <= l /\ 0 <= n
    BY <1>2
<1>4. /\ text \in Seq(Line) /\ Len(text) = n
      /\ \A i \in 1 .. n : text[i] = S[i]
  <2>1. /\ text \in Seq(Line) /\ Len(text) = n + 1 - 1
        /\ \A i \in 1 .. n + 1 - 1 : text[i] = S[i + 1 - 1]
    <3>1. 1 \in Nat \ {0} /\ 1 <= n + 1
      BY <1>3
    <3> QED
      BY <1>1, <1>3, <3>1, Piece
  <2> HIDE DEF text
  <2> QED
    BY <1>3, <2>1
<1>5. /\ rest \in Seq(Line) /\ Len(rest) = l - n
      /\ \A i \in 1 .. l - n : rest[i] = S[n + i]
  <2> HIDE DEF l
  <2>1. n + 1 \in Nat \ {0} /\ n + 1 <= l + 1 /\ l <= l
    BY <1>2, <1>3
  <2>2. l <= Len(S)
    BY <2>1 DEF l
  <2>3. /\ rest \in Seq(Line) /\ Len(rest) = l + 1 - (n + 1)
        /\ \A i \in 1 .. l + 1 - (n + 1) : rest[i] = S[i + (n + 1) - 1]
    BY <1>1, <1>2, <2>1, <2>2, Piece
  <2> HIDE DEF rest
  <2> QED
    BY <1>2, <1>3, <2>3
<1>6. /\ broken = FALSE \/ broken = TRUE
      /\ (IF broken THEN n + 1 ELSE n) \in 1 .. l
    BY <1>2, <1>3 DEF Receive
<1>7. CASE ~broken
  <2>1. data' = [data EXCEPT ![c] = Join(D, text)] /\ stream' = [stream EXCEPT ![c] = rest]
    BY <1>7 DEF Receive
  <2>2. data'[c] = Join(D, text) /\ stream'[c] = rest
    BY <1>1, <2>1
  <2>3. n # 0
    BY <1>6, <1>7
  <2>4. PICK k \in Nat : JoinedAt(D, text, Join(D, text), k)
    BY <1>1, <1>4, <2>3, JoinPlaces
  <2>5. /\ k <= b /\ b <= k + n
        /\ Join(D, text) \in Seq(Line) /\ Len(Join(D, text)) = k + n
        /\ \A i \in 1 .. k : Join(D, text)[i] = D[i]
        /\ \A i \in 1 .. n : Join(D, text)[k + i].place = text[i].place
    BY <1>4, <2>4, Zenon DEF JoinedAt
  <2> HIDE DEF D, S, l, b, rest, text
  <2>6. \A i \in 1 .. n : Join(D, text)[k + i].place = S[i].place
    BY <1>4, <2>5
  <2>7. Taken(c, n, k, n)
    <3>1. \A i \in 1 .. n : i <= n
      BY <1>3
    <3>2. \A i \in 1 .. k : data'[c][i] = D[i]
      BY <2>2, <2>5
    <3>3. \A i \in 1 .. n : data'[c][k + i].place =
                              IF i <= n THEN S[i].place ELSE S[i].place - 1
      BY <2>2, <2>6, <3>1
    <3>4. \A i \in 1 .. l - n : stream'[c][i] = S[n + i]
      BY <1>5, <2>2
    <3>5. Len(data'[c]) = k + n /\ Len(stream'[c]) = l - n
      BY <1>5, <2>2, <2>5
    <3> QED
      BY <1>3, <2>5, <3>2, <3>3, <3>4, <3>5, Zenon DEF Taken, D, S, l, b
  <2>8. /\ {stream', data'} \subseteq [Conns -> Seq(Line)]
        /\ \A d \in Conns \ {c} : stream'[d] = stream[d] /\ data'[d] = data[d]
    BY <1>1, <1>5, <2>1, <2>5
  <2> QED
    BY <1>3, <2>3, <2>7, <2>8
<1>8. CASE broken
  <2> DEFINE piece == FrontOf(Head(rest))
             more == Append(text, piece)
             back == <<Part(Head(rest), "back")>>
             left == Tail(rest)
  <2>1. n + 1 \in 1 .. l /\ n + 1 <= l
    BY <1>2, <1>3, <1>6, <1>8
  <2>2. Head(rest) = S[n + 1] /\ rest # <<>> /\ S[n + 1] \in Line /\ S[n + 1].place # 0
    <3> HIDE DEF l, rest
    <3>1. 1 \in 1 .. l - n /\ l - n # 0
      BY <1>2, <1>3, <2>1
    <3>2. rest[1] = S[n + 1] /\ rest # <<>>
      BY <1>5, <3>1, Lengths
    <3>3. Head(rest) = rest[1]
      BY DEF Head
    <3> QED
      BY <1>2, <2>1, <3>2, <3>3
  <2>3. /\ data' = [data EXCEPT ![c] = Join(D, more)]
        /\ stream' = [stream EXCEPT ![c] = back \o left]
        /\ S[n + 1].part = "all"
    BY <1>8, <2>2 DEF Receive
  <2>4. /\ piece \in Line /\ piece.place = S[n + 1].place - 1
    BY <2>2, PieceType
  <2>5. /\ back \in Seq(Line) /\ Len(back) = 1
        /\ back[1].place = S[n + 1].place /\ back[1].part = "back"
    BY <2>2, PieceType
  <2>6. /\ left \in Seq(Line) /\ Len(left) = l - n - 1
        /\ \A i \in 1 .. l - n - 1 : left[i] = rest[i + 1]
    BY <1>5, <2>2, HeadTailProperties
  <2>7. /\ more \in Seq(Line) /\ Len(more) = n + 1
        /\ \A i \in 1 .. n : more[i] = text[i]
        /\ more[n + 1] = piece
    <3> HIDE DEF text, piece
    <3> QED
      BY <1>4, <2>4, AppendProperties
  <2> HIDE DEF back, left, more
  <2>8. /\ back \o left \in Seq(Line) /\ Len(back \o left) = Len(back) + Len(left)
        /\ \A i \in 1 .. Len(back) : (back \o left)[i] = back[i]
        /\ \A i \in Len(back) + 1 .. Len(back) + Len(left) :
              (back \o left)[i] = left[i - Len(back)]
    BY <2>5, <2>6, Behind, Zenon
  <2> DEFINE both == back \o left
  <2>9. /\ Len(both) = 1 + (l - n - 1)
        /\ \A i \in 1 .. 1 : both[i] = back[i]
        /\ \A i \in 1 + 1 .. 1 + (l - n - 1) : both[i] = left[i - 1]
    BY <2>5, <2>6, <2>8, Zenon
  <2> HIDE DEF both
  <2> DEFINE m == n + 1
  <2>10. m = Len(more) /\ m # 0 /\ m \in Nat /\ Len(more) # 0
    BY <1>3, <2>7
  <2>11. PICK k \in Nat : JoinedAt(D, more, Join(D, more), k)
    BY <1>1, <2>7, <2>10, JoinPlaces
  <2>12. /\ k <= b /\ b <= k + m
         /\ Join(D, more) \in Seq(Line) /\ Len(Join(D, more)) = k + m
         /\ \A i \in 1 .. k : Join(D, more)[i] = D[i]
         /\ \A i \in 1 .. m : Join(D, more)[k + i].place = more[i].place
    BY <2>10, <2>11, Zenon DEF JoinedAt
  <2>13. data'[c] = Join(D, more) /\ stream'[c] = both
    BY <1>1, <2>3 DEF both
  <2> HIDE DEF D, S, l, b, rest, text, piece
  <2>14. \A i \in 1 .. m : /\ more[i] \in Line
                           /\ more[i].place = IF i <= n THEN S[i].place ELSE S[i].place - 1
    <3> TAKE i \in 1 .. m
    <3>1. CASE i \in 1 .. n
      <4>1. more[i] = S[i] /\ S[i] \in Line /\ i <= n
        BY <1>2, <1>3, <1>4, <2>7, <3>1
      <4> QED
        BY <4>1
    <3>2. CASE i = n + 1
      <4>1. ~(i <= n)
        BY <1>3, <3>2
      <4> QED
        BY <2>4, <2>7, <3>2, <4>1
    <3> QED
      BY <1>3, <3>1, <3>2
  <2>15. \A i \in 1 .. m : Join(D, more)[k + i].place =
                              IF i <= n THEN S[i].place ELSE S[i].place - 1
    <3> TAKE i \in 1 .. m
    <3>1. Join(D, more)[k + i].place = more[i].place
      BY <2>12
    <3> QED
      BY <2>14, <3>1, Zenon
  <2>16. \A i \in 1 .. l - n :
            /\ both[i].place = S[n + i].place
            /\ both[i].part = "all" => S[n + i].part = "all"
    <3> TAKE i \in 1 .. l - n
    <3>1. CASE i = 1
      <4>1. both[1] = back[1]
        BY <2>9
      <4> QED
        BY <2>3, <2>5, <3>1, <4>1
    <3>2. CASE i # 1
      <4>1. /\ i \in 1 + 1 .. 1 + (l - n - 1) /\ i - 1 \in 1 .. l - n - 1
            /\ i - 1 + 1 = i
        BY <1>2, <1>3, <2>1, <3>2
      <4>2. both[i] = rest[i]
        BY <2>6, <2>9, <4>1
      <4> QED
        BY <1>5, <4>2
    <3> QED
      BY <3>1, <3>2
  <2>17. 1 + (l - n - 1) = l - n
    BY <1>2, <1>3
  <2>18. Taken(c, n, k, m)
    <3>1. Len(data'[c]) = k + m /\ Len(stream'[c]) = l - n
      BY <2>9, <2>12, <2>13, <2>17
    <3>2. m = n + 1 /\ m <= l /\ S[m].part = "all" /\ stream'[c][1].part = "back"
      <4>1. stream'[c][1] = back[1]
        BY <2>9, <2>13
      <4> QED
        BY <2>1, <2>3, <2>5, <4>1
    <3> HIDE DEF m
    <3> QED
      BY <1>3, <2>12, <2>13, <2>15, <2>16, <3>1, <3>2, Zenon
      DEF Taken, D, S, l, b
  <2>19. /\ {stream', data'} \subseteq [Conns -> Seq(Line)]
         /\ \A d \in Conns \ {c} : stream'[d] = stream[d] /\ data'[d] = data[d]
    BY <1>1, <2>3, <2>8, <2>12 DEF both
  <2> QED
    BY <1>3, <2>10, <2>18, <2>19
<1> QED
    BY <1>6, <1>7, <1>8

(* What the server takes from its buffer. *)
LEMMA ReturnIs ==
    ASSUME TypeInv, NEW c \in Conns, Return(c)
    PROVE  /\ data' \in [Conns -> Seq(Line)]
           /\ \A d \in Conns \ {c} : data'[d] = data[d]
           /\ Len(data'[c]) = Len(data[c]) - at[c]
           /\ \A i \in 1 .. Len(data[c]) - at[c] : data'[c][i] = data[c][at[c] + i]
<1> DEFINE D == data[c]
           l == Len(D)
           a == at[c]
           left == SubSeq(D, a + 1, l)
<1>1. data \in [Conns -> Seq(Line)] /\ D \in Seq(Line) /\ a \in Nat
    BY DEF TypeInv, TypeOK
<1>2. l \in Nat /\ a <= l
    BY <1>1, Lengths DEF TypeInv, Within
<1>3. data' = [data EXCEPT ![c] = left]
    BY DEF Return
<1> HIDE DEF a, l
<1>4. a + 1 \in Nat \ {0} /\ a + 1 <= l + 1 /\ l <= Len(D)
  <2>1. l <= Len(D)
    BY <1>2 DEF l
  <2> QED
    BY <1>1, <1>2, <2>1
<1>5. /\ left \in Seq(Line) /\ Len(left) = l + 1 - (a + 1)
      /\ \A i \in 1 .. l + 1 - (a + 1) : left[i] = D[i + (a + 1) - 1]
    BY <1>1, <1>2, <1>4, Piece
<1>6. /\ l + 1 - (a + 1) = l - a
      /\ \A i \in 1 .. l - a : i + (a + 1) - 1 = a + i
    BY <1>1, <1>2
<1>7. \A i \in 1 .. l - a : left[i] = D[a + i]
    BY <1>5, <1>6
<1> HIDE DEF left
<1>8. data'[c] = left /\ \A d \in Conns \ {c} : data'[d] = data[d]
    BY <1>1, <1>3
<1>9. data' \in [Conns -> Seq(Line)]
    BY <1>1, <1>3, <1>5
<1> QED
    BY <1>5, <1>6, <1>7, <1>8, <1>9 DEF l, a, D

(* The texts, the fields and the log are typed after each step. *)
texts == <<stream, data, hreq, log>>
TextsOK ==
    /\ {stream, data} \subseteq [Conns -> Seq(Line)]
    /\ hreq \in [Conns -> Request] /\ log \in [Conns -> Seq(Answer)]

LEMMA FoundLine ==
    ASSUME TypeOK, NEW c \in Conns, NEW i \in 1 .. Len(data[c])
    PROVE  data[c][i].place \in Nat /\ data[c][i] \in Line
<1>1. data[c] \in Seq(Line)
    BY DEF TypeOK
<1>2. data[c][i] \in Line
    BY <1>1, Lengths
<1> QED
    BY <1>2 DEF Line

LEMMA AtIs ==
    ASSUME TypeInv, NEW c \in Conns
    PROVE  /\ at[c] \in Nat /\ Len(data[c]) \in Nat
           /\ DOMAIN data[c] = 1 .. Len(data[c]) /\ at[c] <= Len(data[c])
           /\ input[c] = "respond" => at[c] \in 1 .. Len(data[c])
           /\ at[c] < Len(data[c]) => at[c] + 1 \in 1 .. Len(data[c])
<1> DEFINE l == Len(data[c])
<1>1. at[c] \in Nat /\ data[c] \in Seq(Line)
    BY DEF TypeInv, TypeOK
<1>2. l \in Nat /\ DOMAIN data[c] = 1 .. l /\ at[c] <= l
    BY <1>1, Lengths DEF TypeInv, Within
<1>3. input[c] = "respond" => at[c] # 0
    BY DEF TypeInv, Within
<1> HIDE DEF l
<1>4. at[c] # 0 => at[c] \in 1 .. l
    BY <1>1, <1>2
<1>5. at[c] < l => at[c] + 1 \in 1 .. l
    BY <1>1, <1>2
<1> QED
    BY <1>1, <1>2, <1>3, <1>4, <1>5 DEF l

(* One field of one function. *)
LEMMA OneOf ==
    ASSUME NEW S, NEW f \in [Conns -> S], NEW c \in Conns, NEW v \in S
    PROVE  [f EXCEPT ![c] = v] \in [Conns -> S]
OBVIOUS

LEMMA ParseTexts ==
    ASSUME TypeInv, NEW c \in Conns,
           \/ ParseBad(c) \/ Parse(c)
           \/ \E n \in DOMAIN data[c] : ParseFail(c, n)
    PROVE  TextsOK' /\ Len(data'[c]) = Len(data[c]) /\ stream' = stream
<1> DEFINE l == Len(data[c])
           a == at[c]
<1>1. /\ TypeOK /\ TextsOK /\ a \in Nat /\ l \in Nat
      /\ DOMAIN data[c] = 1 .. l
      /\ a < l => a + 1 \in 1 .. l
    BY AtIs DEF TypeInv, TypeOK, TextsOK
<1>2. /\ \A n : CutTo(c, n) \in Seq(Line) /\ Len(CutTo(c, n)) = l
      /\ \A i \in 1 .. l : data[c][i].place \in Nat
    BY <1>1, CutIs, FoundLine
<1>3. ASSUME NEW t \in Seq(Line), NEW r \in Request, Len(t) = l,
             data' = [data EXCEPT ![c] = t], hreq' = [hreq EXCEPT ![c] = r],
             stream' = stream, log' = log
      PROVE  TextsOK' /\ Len(data'[c]) = l /\ stream' = stream
    BY <1>1, <1>3 DEF TextsOK
<1>5. 600 \in Codes /\ 500 \in Codes /\ hreq[c] \in Request
    BY <1>1 DEF Codes, Known, TextsOK
<1> HIDE DEF l, a
<1>6. CASE ParseBad(c)
  <2> DEFINE p == data[c][a + 1].place
             r == [hreq[c] EXCEPT !.code = 600, !.by = p]
  <2>1. p \in Nat
    BY <1>1, <1>2, <1>6 DEF ParseBad, l, a
  <2>2. /\ data' = [data EXCEPT ![c] = CutTo(c, at[c] + 1)]
        /\ hreq' = [hreq EXCEPT ![c] = r]
        /\ stream' = stream /\ log' = log
    BY <1>6 DEF ParseBad, textVars, a
  <2> HIDE DEF p
  <2>4. r \in Request
    <3> DEFINE x == [hreq[c] EXCEPT !.code = 600]
    <3>2. x \in Request
      BY <1>5, <1>5 DEF Request
    <3>3. r = [x EXCEPT !.by = p]
      OBVIOUS
    <3> HIDE DEF x, r
    <3>4. [x EXCEPT !.by = p] \in Request
      BY <2>1, <3>2 DEF Request
    <3> QED
      BY <3>3, <3>4
  <2> HIDE DEF r
  <2>7. CutTo(c, at[c] + 1) \in Seq(Line) /\ Len(CutTo(c, at[c] + 1)) = l
    BY <1>2
  <2> QED
    BY <1>3, <2>2, <2>4, <2>7 DEF l
<1>7. CASE Parse(c)
  <2>1. LastLine(c) \in a + 1 .. l /\ a < l
    BY <1>1, <1>7, LastLineIs DEF Parse, l, a
  <2>2. LastLine(c) \in Nat /\ LastLine(c) <= l
    BY <1>1, <2>1
  <2>3. Parsed(c, LastLine(c)) \in Request
    BY <1>1, <2>1, <2>2, ParsedType DEF l, a
  <2>4. /\ data' = [data EXCEPT ![c] = CutTo(c, LastLine(c))]
        /\ hreq' = [hreq EXCEPT ![c] = Parsed(c, LastLine(c))]
        /\ stream' = stream /\ log' = log
    BY <1>7 DEF Parse, textVars
  <2>7. CutTo(c, LastLine(c)) \in Seq(Line) /\ Len(CutTo(c, LastLine(c))) = l
    BY <1>2
  <2> QED
    BY <1>3, <2>3, <2>4, <2>7 DEF l
<1>8. ASSUME NEW n \in DOMAIN data[c], ParseFail(c, n)
      PROVE  TextsOK' /\ Len(data'[c]) = l /\ stream' = stream
  <2> DEFINE p == data[c][n].place
             q == IF n = at[c] + 1 THEN hreq[c] ELSE Parsed(c, n - 1)
             r == [q EXCEPT !.code = 500, !.by = p]
  <2>1. n \in 1 .. l /\ n \in a + 1 .. LastLine(c) /\ p \in Nat
    <3>1. n \in a + 1 .. LastLine(c)
      BY <1>8 DEF ParseFail, a
    <3>2. n \in 1 .. l
      BY <1>1, <1>8
    <3>3. p \in Nat
      BY <1>2, <3>2
    <3> QED
      BY <3>1, <3>2, <3>3
  <2>2. n - 1 \in Nat /\ n - 1 <= l /\ a < l
    <3>1. a + 1 <= n /\ n <= l /\ n \in Nat
      BY <1>1, <2>1
    <3> QED
      BY <1>1, <3>1
  <2>3. Parsed(c, n - 1) \in Request
    BY <1>1, <2>2, ParsedType DEF l, a
  <2>4. q \in Request
    BY <1>5, <2>3
  <2>5. /\ data' = [data EXCEPT ![c] = CutTo(c, n)]
        /\ hreq' = [hreq EXCEPT ![c] = r]
        /\ stream' = stream /\ log' = log
    BY <1>1, <1>8 DEF ParseFail, textVars, TextsOK
  <2> HIDE DEF p, q
  <2>6. r \in Request
    <3> DEFINE x == [q EXCEPT !.code = 500]
    <3>2. x \in Request
      BY <1>5, <2>4 DEF Request
    <3>3. r = [x EXCEPT !.by = p]
      OBVIOUS
    <3> HIDE DEF x, r
    <3>4. [x EXCEPT !.by = p] \in Request
      BY <2>1, <3>2 DEF Request
    <3> QED
      BY <3>3, <3>4
  <2> HIDE DEF r
  <2>7. CutTo(c, n) \in Seq(Line) /\ Len(CutTo(c, n)) = l
    BY <1>2
  <2> QED
    BY <1>3, <2>5, <2>6, <2>7 DEF l
<1> QED
    BY <1>6, <1>7, <1>8 DEF l

LEMMA RespondTexts ==
    ASSUME TypeInv, NEW c \in Conns, NEW code, NEW outcome \in {"sent", "unsent", "error"},
           Respond(c, code, outcome)
    PROVE  /\ TextsOK' /\ data' = data
           /\ stream'[c] = stream[c] \/ stream'[c] = <<>>
           /\ \A d \in Conns \ {c} : stream'[d] = stream[d]
<1> DEFINE answer == [req |-> hreq[c].req, upto |-> data[c][at[c]].place]
<1>1. TypeOK /\ TextsOK /\ at[c] \in 1 .. Len(data[c])
    BY AtIs DEF TypeInv, TypeOK, TextsOK, Respond
<1>2. data[c][at[c]].place \in Nat
    BY <1>1, FoundLine
<1>3. hreq[c].req \in Nat
    BY <1>1 DEF TextsOK, Request
<1>4. answer \in Answer
    BY <1>2, <1>3 DEF Answer
<1>5. Cleaned(hreq[c]) \in Request /\ <<>> \in Seq(Line)
  <2>1. hreq[c].qstr \in Nat
    BY <1>1 DEF TextsOK, Request
  <2> QED
    BY <2>1, EmptySeq DEF Cleaned, Blank, Request, Codes, Known
<1>6. log' = [log EXCEPT ![c] = Append(log[c], answer)]
    BY DEF Respond
<1>7. hreq' = [hreq EXCEPT ![c] = Cleaned(hreq[c])] /\ data' = data
    BY DEF Respond
<1>8. stream' = [stream EXCEPT ![c] = IF outcome = "error" THEN <<>> ELSE stream[c]]
    BY DEF Respond
<1> HIDE DEF answer
<1>9. Append(log[c], answer) \in Seq(Answer)
  <2>1. log[c] \in Seq(Answer)
    BY <1>1 DEF TextsOK
  <2> QED
    BY <1>4, <2>1, AppendProperties
<1>10. log' \in [Conns -> Seq(Answer)] /\ hreq' \in [Conns -> Request]
    BY <1>1, <1>5, <1>6, <1>7, <1>9, OneOf DEF TextsOK
<1>11. stream' \in [Conns -> Seq(Line)]
    BY <1>1, <1>5, <1>8, OneOf DEF TextsOK
<1>12. /\ stream'[c] = stream[c] \/ stream'[c] = <<>>
       /\ \A d \in Conns \ {c} : stream'[d] = stream[d]
    BY <1>1, <1>8 DEF TextsOK
<1> QED
    BY <1>1, <1>7, <1>10, <1>11, <1>12 DEF TextsOK

(* A step that handles no text. *)
Quiet(c) ==
    \/ Connect(c) \/ ReadEvent(c) \/ HangUp(c) \/ TimeoutCall(c) \/ Timeout(c) \/ Reset(c)
    \/ CloseRoot(c) \/ CloseMark(c) \/ CloseDrop(c)
    \/ InputTest(c) \/ InputLock(c) \/ ReceiveEnd(c)
    \/ InputRoot(c) \/ InputCall(c) \/ InputHold(c) \/ InputFetch(c)
    \/ InputDrop(c) \/ ParseNone(c)

Reads(c) ==
    \/ ParseBad(c) \/ Parse(c) \/ \E n \in DOMAIN data[c] : ParseFail(c, n)

Moves ==
    \/ Ready \/ Free
    \/ \E c \in Conns :
          \/ Quiet(c) \/ Reads(c) \/ Return(c)
          \/ \E seg \in Segments : Send(c, seg)
          \/ \E n \in 0 .. Len(stream[c]), broken \in BOOLEAN : Receive(c, n, broken)
          \/ \E code \in Codes, outcome \in {"sent", "unsent", "error"} :
                Respond(c, code, outcome)

LEMMA NextIs == [Next]_vars => Moves \/ UNCHANGED vars
BY Zenon DEF Next, Callback, Environment, Moves, Quiet, Reads

LEMMA QuietTexts ==
    ASSUME NEW c \in Conns, Quiet(c)
    PROVE  UNCHANGED texts
<1> USE DEF texts, textVars
<1>1. CASE Connect(c) \/ ReadEvent(c) \/ HangUp(c) \/ TimeoutCall(c) \/ Timeout(c) \/ Reset(c)
    BY <1>1 DEF Connect, ReadEvent, HangUp, TimeoutCall, Timeout, Reset
<1>2. CASE CloseRoot(c) \/ CloseMark(c) \/ CloseDrop(c)
    BY <1>2 DEF CloseRoot, CloseMark, CloseDrop
<1>3. CASE InputTest(c) \/ InputLock(c) \/ ReceiveEnd(c)
    BY <1>3 DEF InputTest, InputLock, ReceiveEnd
<1>4. CASE InputRoot(c) \/ InputCall(c) \/ InputHold(c) \/ InputFetch(c)
           \/ InputDrop(c) \/ ParseNone(c)
    BY <1>4 DEF InputRoot, InputCall, InputHold, InputFetch, InputDrop, ParseNone
<1> QED
    BY <1>1, <1>2, <1>3, <1>4 DEF Quiet

LEMMA TextStep == TypeInv /\ [Next]_vars => TextsOK'
<1> SUFFICES ASSUME TypeInv, [Next]_vars PROVE TextsOK'
    OBVIOUS
<1>1. TextsOK
    BY DEF TypeInv, TypeOK, TextsOK
<1>2. CASE UNCHANGED texts
    BY <1>1, <1>2 DEF TextsOK, texts
<1>3. CASE Ready \/ Free \/ UNCHANGED vars
    BY <1>2, <1>3 DEF Ready, Free, vars, textVars, texts
<1>4. ASSUME NEW c \in Conns, Quiet(c) PROVE TextsOK'
    BY <1>2, <1>4, QuietTexts
<1>5. ASSUME NEW c \in Conns, Reads(c) PROVE TextsOK'
    BY <1>5, ParseTexts DEF Reads
<1>6. ASSUME NEW c \in Conns, Return(c) PROVE TextsOK'
    BY <1>1, <1>6, ReturnIs DEF TextsOK, Return, textVars
<1>7. ASSUME NEW c \in Conns, NEW seg \in Segments, Send(c, seg) PROVE TextsOK'
    BY <1>1, <1>7, SendIs DEF TextsOK, Send, TypeInv
<1>8. ASSUME NEW c \in Conns, NEW n \in 0 .. Len(stream[c]), NEW broken \in BOOLEAN,
             Receive(c, n, broken)
      PROVE  TextsOK'
  <2>1. hreq' = hreq /\ log' = log
    BY <1>8 DEF Receive
  <2> QED
    BY <1>1, <1>8, <2>1, ReceiveIs DEF TextsOK
<1>9. ASSUME NEW c \in Conns, NEW code \in Codes,
             NEW outcome \in {"sent", "unsent", "error"}, Respond(c, code, outcome)
      PROVE  TextsOK'
    BY <1>9, RespondTexts
<1> QED
    BY <1>3, <1>4, <1>5, <1>6, <1>7, <1>8, <1>9, NextIs DEF Moves

-----------------------------------------------------------------------------
(* The session of one connection: who has it, who refers to it, and where its
   CLOSE and its INPUT are. *)

Holds(c) == input[c] \in Holding

Referred(c) ==
    alive[c] = "live" =>
        /\ refs[c] = (IF event[c] = "closed" THEN 0 ELSE 1) + (IF Holds(c) THEN 1 ELSE 0)
        /\ refs[c] # 0

Session(c) ==
    /\ own[c] <=> alive[c] # "none"
    /\ own[c] /\ event[c] \in {"armed", "deleted"} => alive[c] = "live"
    /\ event[c] = "none" => /\ ~own[c] /\ works[c] = 0 /\ waiting[c] = 0
                            /\ input[c] = "idle" /\ loop[c] = "idle"
    /\ loop[c] = "drop" => event[c] = "deleted" /\ own[c]
    /\ Holds(c) => alive[c] = "live"
    /\ Referred(c)

Sessions == \A c \in Conns : Session(c)

(* The list and its counter. *)
Listed ==
    /\ linked = {c \in Conns : alive[c] = "live"}
    /\ IsFiniteSet(linked)
    /\ init # "freed" => count = Cardinality(linked)
    /\ init = "freed" => linked = {}
    /\ DeafAfterRefusal

IInv == TypeInv /\ Sessions /\ Listed

life == <<event, own, works, waiting, alive, refs, input, loop>>

(* The other connections are left alone. *)
Others(c) ==
    \A d \in Conns \ {c} :
        /\ event'[d] = event[d] /\ own'[d] = own[d] /\ works'[d] = works[d]
        /\ waiting'[d] = waiting[d] /\ alive'[d] = alive[d] /\ refs'[d] = refs[d]
        /\ input'[d] = input[d] /\ loop'[d] = loop[d]

LEMMA OthersKeep ==
    ASSUME Sessions, NEW c \in Conns, Others(c), Session(c)'
    PROVE  Sessions'
<1> SUFFICES ASSUME NEW d \in Conns PROVE Session(d)'
    BY DEF Sessions
<1>1. CASE d = c
    BY <1>1
<1>2. CASE d # c
  <2>1. Session(d) /\ d \in Conns \ {c}
    BY <1>2 DEF Sessions
  <2> QED
    BY <2>1, Zenon DEF Session, Referred, Holds, Holding, Others
<1> QED
    BY <1>1, <1>2

LEMMA SameLife == ASSUME Sessions, UNCHANGED life PROVE Sessions'
BY DEF Sessions, life, Session, Referred, Holds, Holding

LEMMA SessionStep == IInv /\ [Next]_vars => Sessions'
<1> SUFFICES ASSUME IInv, [Next]_vars PROVE Sessions'
    OBVIOUS
<1>1. TypeOK /\ Sessions /\ \A c \in Conns : Session(c)
    BY DEF IInv, TypeInv, Sessions
<1>2. CASE Ready \/ UNCHANGED vars
    BY <1>1, <1>2, SameLife DEF Ready, vars, life, connVars, workVars, sessVars
<1>3. CASE Free
  <2> SUFFICES ASSUME NEW c \in Conns PROVE Session(c)'
    BY DEF Sessions
  <2>1. Session(c) /\ (c \in linked <=> alive[c] = "live")
    BY <1>1 DEF IInv, Listed
  <2> QED
    BY <1>1, <1>3, <2>1 DEF Free, Session, Referred, Holds, Holding, TypeOK, Each
<1> USE DEF connVars, workVars, sessVars, Goto, Closed
<1>4. ASSUME NEW c \in Conns,
             Return(c) \/ ParseNone(c) \/ Reads(c) \/ \E seg \in Segments : Send(c, seg)
      PROVE  Sessions'
  <2>1. Session(c)
    BY <1>1
  <2>2. Others(c) /\ Session(c)'
    <3>1. CASE Return(c)
      BY <1>1, <2>1, <3>1 DEF Return, Others, Session, Referred, Holds, Holding, TypeOK
    <3>2. CASE ParseNone(c)
      BY <1>1, <2>1, <3>2 DEF ParseNone, Others, Session, Referred, Holds, Holding, TypeOK
    <3>3. CASE \E seg \in Segments : Send(c, seg)
      BY <1>1, <2>1, <3>3 DEF Send, Others, Session, Referred, Holds, Holding, TypeOK
    <3>4. CASE Reads(c)
      <4>1. /\ UNCHANGED <<event, own, works, waiting, alive, refs, loop>>
            /\ input[c] = "parse"
            /\ input' = [input EXCEPT ![c] = "drop"] \/ input' = [input EXCEPT ![c] = "respond"]
        BY <3>4 DEF Reads, ParseBad, Parse, ParseFail
      <4> QED
        BY <1>1, <2>1, <4>1 DEF Others, Session, Referred, Holds, Holding, TypeOK
    <3> QED
      BY <1>4, <3>1, <3>2, <3>3, <3>4
  <2> QED
    BY <1>1, <2>2, OthersKeep
<1>5. ASSUME NEW c \in Conns, Quiet(c) PROVE Sessions'
  <2>1. Session(c)
    BY <1>1
  <2>3. /\ event \in [Conns -> {"none", "armed", "deleted", "closed"}]
        /\ own \in [Conns -> BOOLEAN]
        /\ works \in [Conns -> Nat] /\ waiting \in [Conns -> Nat] /\ refs \in [Conns -> Nat]
        /\ alive \in [Conns -> {"none", "live", "freed"}]
        /\ input \in [Conns -> {"idle", "recv", "call", "hold", "fetch", "parse",
                                "respond", "drop", "return"}]
        /\ loop \in [Conns -> {"idle", "drop"}]
    BY <1>1 DEF TypeOK
  <2> USE DEF Others, Session, Referred, Holds, Holding
  <2>2. Others(c) /\ Session(c)'
    <3>1. CASE Connect(c)
      <4>1. /\ event[c] = "none" /\ event' = [event EXCEPT ![c] = "armed"]
            /\ \/ /\ own' = [own EXCEPT ![c] = TRUE]
                  /\ alive' = [alive EXCEPT ![c] = "live"]
                  /\ refs' = [refs EXCEPT ![c] = 1]
               \/ UNCHANGED <<own, alive, refs>>
            /\ UNCHANGED <<works, waiting, input, loop>>
        BY <3>1 DEF Connect, NewSession
      <4>2. Others(c)
        BY <2>3, <4>1
      <4>3. ~own[c] /\ alive[c] = "none" /\ input[c] = "idle" /\ loop[c] = "idle"
        BY <2>1, <4>1
      <4>4. /\ event'[c] = "armed" /\ input'[c] = "idle" /\ loop'[c] = "idle"
            /\ \/ own'[c] = TRUE /\ alive'[c] = "live" /\ refs'[c] = 1
               \/ own'[c] = FALSE /\ alive'[c] = "none"
        BY <2>3, <4>1, <4>3
      <4>5. Session(c)'
        BY <4>4
      <4> QED
        BY <4>2, <4>5
    <3>2. CASE ReadEvent(c)
      BY <2>1, <2>3, <3>2 DEF ReadEvent
    <3>11. CASE HangUp(c)
      BY <2>1, <2>3, <3>11 DEF HangUp
    <3>12. CASE TimeoutCall(c)
      BY <2>1, <2>3, <3>12 DEF TimeoutCall
    <3>15. CASE Timeout(c) \/ Reset(c)
      <4>1. /\ event' = [event EXCEPT ![c] = Closed(c)] \/ event' = event
            /\ UNCHANGED <<own, works, waiting, alive, refs, input, loop>>
        BY <3>15 DEF Timeout, Reset
      <4> QED
        BY <2>1, <2>3, <4>1
    <3>3. CASE CloseRoot(c) \/ CloseMark(c)
      BY <2>1, <2>3, <3>3 DEF CloseRoot, CloseMark
    <3>4. CASE CloseDrop(c)
      BY <2>1, <2>3, <3>4 DEF CloseDrop, Unref
    <3>5. CASE InputTest(c)
      BY <2>1, <2>3, <3>5 DEF InputTest
    <3>13. CASE InputLock(c)
      BY <2>1, <2>3, <3>13 DEF InputLock
    <3>6. CASE ReceiveEnd(c)
      BY <2>1, <2>3, <3>6 DEF ReceiveEnd
    <3>7. CASE InputRoot(c)
      BY <2>1, <2>3, <3>7 DEF InputRoot
    <3>14. CASE InputCall(c)
      BY <2>1, <2>3, <3>14 DEF InputCall
    <3>8. CASE InputHold(c)
      BY <2>1, <2>3, <3>8 DEF InputHold
    <3>16. CASE InputFetch(c)
      BY <2>1, <2>3, <3>16 DEF InputFetch
    <3>9. CASE InputDrop(c)
      <4>1. /\ input[c] = "drop" /\ alive[c] = "live"
            /\ input' = [input EXCEPT ![c] = "return"]
            /\ refs' = [refs EXCEPT ![c] = @ - 1]
            /\ alive' = IF refs[c] = 1 THEN [alive EXCEPT ![c] = "freed"] ELSE alive
            /\ UNCHANGED <<event, own, works, waiting, loop>>
        BY <3>9 DEF InputDrop, Unref
      <4>2. Others(c)
        BY <2>3, <4>1
      <4>3. /\ input'[c] = "return" /\ refs'[c] = refs[c] - 1
            /\ alive'[c] = IF refs[c] = 1 THEN "freed" ELSE "live"
        BY <2>3, <4>1
      <4>4. Session(c)'
        BY <2>1, <2>3, <4>1, <4>3
      <4> QED
        BY <4>2, <4>4
    <3>10. CASE ParseNone(c)
      BY <2>1, <2>3, <3>10 DEF ParseNone
    <3> QED
      BY <1>5, <3>1, <3>2, <3>3, <3>4, <3>5, <3>6, <3>7, <3>8, <3>9, <3>10, <3>11, <3>12, <3>13, <3>14, <3>15, <3>16, Zenon DEF Quiet
  <2> QED
    BY <1>1, <2>2, OthersKeep
<1>6. ASSUME NEW c \in Conns, NEW n \in 0 .. Len(stream[c]), NEW broken \in BOOLEAN,
             Receive(c, n, broken)
      PROVE  Sessions'
  <2>1. /\ UNCHANGED <<event, own, works, waiting, alive, refs, loop>> /\ input[c] = "recv"
        /\ input' = [input EXCEPT ![c] = "call"]
    BY <1>6 DEF Receive
  <2>2. Others(c) /\ Session(c)'
    BY <1>1, <2>1 DEF Others, Session, Referred, Holds, Holding, TypeOK
  <2> QED
    BY <1>1, <2>2, OthersKeep
<1>7. ASSUME NEW c \in Conns, NEW code \in Codes,
             NEW outcome \in {"sent", "unsent", "error"}, Respond(c, code, outcome)
      PROVE  Sessions'
  <2>1. /\ UNCHANGED <<own, works, waiting, alive, refs, loop>> /\ input[c] = "respond"
        /\ input' = [input EXCEPT ![c] = "parse"]
        /\ \/ event' = [event EXCEPT ![c] = Closed(c)]
           \/ event' = event
    BY <1>1, <1>7 DEF Respond, TypeOK
  <2>3. Session(c) /\ input[c] = "respond" /\ input'[c] = "parse"
    BY <1>1, <2>1 DEF TypeOK
  <2>4. /\ event'[c] = event[c] \/ (event[c] = "armed" /\ event'[c] = "deleted")
        /\ own'[c] = own[c] /\ works'[c] = works[c] /\ waiting'[c] = waiting[c]
        /\ alive'[c] = alive[c] /\ refs'[c] = refs[c] /\ loop'[c] = loop[c]
    <3>1. event \in [Conns -> {"none", "armed", "deleted", "closed"}]
      BY <1>1 DEF TypeOK
    <3>2. event'[c] = event[c] \/ (event[c] = "armed" /\ event'[c] = "deleted")
      BY <2>1, <3>1
    <3> QED
      BY <2>1, <3>2, Zenon
  <2>5. Session(c)'
    BY <2>3, <2>4 DEF Session, Referred, Holds, Holding
  <2>6. Others(c)
    BY <1>1, <2>1 DEF Others, TypeOK
  <2>2. Others(c) /\ Session(c)'
    BY <2>5, <2>6
  <2> QED
    BY <1>1, <2>2, OthersKeep
<1> QED
    BY <1>2, <1>3, <1>4, <1>5, <1>6, <1>7, NextIs, Zenon DEF Moves

-----------------------------------------------------------------------------
(* The list of sessions. *)

LEMMA LiveCounted ==
    ASSUME IInv, NEW c \in Conns, alive[c] = "live"
    PROVE  /\ c \in linked /\ init # "freed" /\ count = Cardinality(linked)
           /\ count \in Nat /\ count # 0 /\ refs[c] \in Nat /\ refs[c] # 0
<1>1. /\ c \in linked /\ IsFiniteSet(linked) /\ init # "freed"
      /\ count = Cardinality(linked)
    BY DEF IInv, Listed
<1>2. Cardinality(linked) \in Nat /\ Cardinality(linked) # 0
    BY <1>1, FS_CardinalityType, FS_EmptySet
<1>3. refs[c] \in Nat /\ refs[c] # 0
    BY DEF IInv, TypeInv, TypeOK, Sessions, Session, Referred
<1> QED
    BY <1>1, <1>2, <1>3

LEMMA UnrefLists ==
    ASSUME IInv, NEW c \in Conns, alive[c] = "live", Unref(c), UNCHANGED init
    PROVE  /\ linked' = {d \in Conns : alive'[d] = "live"}
           /\ IsFiniteSet(linked') /\ count' = Cardinality(linked')
           /\ init' # "freed"
<1>1. /\ linked = {d \in Conns : alive[d] = "live"} /\ IsFiniteSet(linked)
      /\ alive \in [Conns -> {"none", "live", "freed"}]
    BY DEF IInv, Listed, TypeInv, TypeOK
<1>2. c \in linked /\ init # "freed" /\ count = Cardinality(linked)
    BY LiveCounted
<1>3. CASE refs[c] = 1
  <2>1. /\ linked' = linked \ {c} /\ count' = count - 1
        /\ alive' = [alive EXCEPT ![c] = "freed"]
    BY <1>3 DEF Unref
  <2>2. IsFiniteSet(linked \ {c}) /\ Cardinality(linked \ {c}) = Cardinality(linked) - 1
    BY <1>1, <1>2, FS_RemoveElement
  <2>3. linked' = {d \in Conns : alive'[d] = "live"}
    BY <1>1, <2>1
  <2> QED
    BY <1>2, <2>1, <2>2, <2>3
<1>4. CASE refs[c] # 1
    BY <1>1, <1>2, <1>4 DEF Unref, listVars
<1> QED
    BY <1>3, <1>4

LEMMA ListStep == IInv /\ [Next]_vars => Listed'
<1> SUFFICES ASSUME IInv, [Next]_vars PROVE Listed'
    OBVIOUS
<1> USE DEF rootVars, listVars, connVars, workVars, sessVars, Goto, Closed
<1>1. TypeOK /\ Listed
    BY DEF IInv, TypeInv
<1>2. CASE UNCHANGED <<init, deaf, linked, count, alive, event>>
    BY <1>1, <1>2 DEF Listed, DeafAfterRefusal
<1>3. CASE Ready \/ UNCHANGED vars
  <2>1. CASE Ready
    <3>1. UNCHANGED <<deaf, linked, count, alive, event>> /\ init = "new" /\ init' = "ready"
      BY <2>1 DEF Ready
    <3> QED
      BY <1>1, <3>1 DEF Listed, DeafAfterRefusal
  <2>2. CASE UNCHANGED vars
    BY <1>2, <2>2 DEF vars
  <2> QED
    BY <1>3, <2>1, <2>2
<1>4. CASE Free
  <2>1. /\ linked' = {} /\ init' = "freed" /\ deaf' = deaf
        /\ alive' = [c \in Conns |-> IF c \in linked THEN "freed" ELSE alive[c]]
        /\ event' = [c \in Conns |-> "closed"]
    BY <1>4 DEF Free, Each
  <2>2. linked' = {c \in Conns : alive'[c] = "live"}
    BY <1>1, <2>1 DEF Listed
  <2>3. DeafAfterRefusal'
    BY <1>1, <2>1 DEF Listed, DeafAfterRefusal
  <2>4. IsFiniteSet(linked')
    BY <2>1, FS_EmptySet
  <2> QED
    BY <2>1, <2>2, <2>3, <2>4 DEF Listed
<1>5. ASSUME NEW c \in Conns, Reads(c) \/ Return(c) PROVE Listed'
  <2>1. UNCHANGED <<init, deaf, linked, count, alive, event>>
    BY <1>5 DEF Reads, ParseBad, Parse, ParseFail, Return
  <2> QED
    BY <1>2, <2>1
<1>6. ASSUME NEW c \in Conns, NEW seg \in Segments, Send(c, seg) PROVE Listed'
  <2>1. UNCHANGED <<init, deaf, linked, count, alive, event>>
    BY <1>6 DEF Send
  <2> QED
    BY <1>2, <2>1
<1>7. ASSUME NEW c \in Conns, NEW n \in 0 .. Len(stream[c]), NEW broken \in BOOLEAN,
             Receive(c, n, broken)
      PROVE  Listed'
  <2>1. UNCHANGED <<init, deaf, linked, count, alive, event>>
    BY <1>7 DEF Receive
  <2> QED
    BY <1>2, <2>1
<1>8. ASSUME NEW c \in Conns, UNCHANGED <<init, deaf, linked, count, alive>>,
             \/ event' = [event EXCEPT ![c] = Closed(c)]
             \/ event' = event
      PROVE  Listed'
  <2>1. \A d \in Conns : event[d] = "closed" => event'[d] = "closed"
    BY <1>1, <1>8 DEF TypeOK
  <2>2. DeafAfterRefusal'
    BY <1>1, <1>8, <2>1 DEF Listed, DeafAfterRefusal
  <2> QED
    BY <1>1, <1>8, <2>2 DEF Listed
<1>9. ASSUME NEW c \in Conns, NEW code \in Codes,
             NEW outcome \in {"sent", "unsent", "error"}, Respond(c, code, outcome)
      PROVE  Listed'
  <2>1. /\ UNCHANGED <<init, deaf, linked, count, alive>>
        /\ \/ event' = [event EXCEPT ![c] = Closed(c)]
           \/ event' = event
    BY <1>1, <1>9 DEF Respond, TypeOK
  <2> QED
    BY <1>8, <2>1
<1>10. ASSUME NEW c \in Conns, Quiet(c) PROVE Listed'
  <2>1. CASE ReadEvent(c) \/ HangUp(c) \/ TimeoutCall(c) \/ CloseMark(c) \/ InputTest(c)
             \/ InputLock(c)
    <3>1. UNCHANGED <<init, deaf, linked, count, alive, event>>
      BY <2>1 DEF ReadEvent, HangUp, TimeoutCall, CloseMark, InputTest, InputLock
    <3> QED
      BY <1>2, <3>1
  <2>2. CASE InputRoot(c) \/ InputCall(c) \/ InputHold(c) \/ InputFetch(c) \/ ParseNone(c)
    <3>1. UNCHANGED <<init, deaf, linked, count, alive, event>>
      BY <2>2 DEF InputRoot, InputCall, InputHold, InputFetch, ParseNone
    <3> QED
      BY <1>2, <3>1
  <2>3. CASE Timeout(c) \/ Reset(c) \/ ReceiveEnd(c)
    <3>1. /\ UNCHANGED <<init, deaf, linked, count, alive>>
          /\ \/ event' = [event EXCEPT ![c] = Closed(c)]
             \/ event' = event
      <4>1. CASE Timeout(c) \/ Reset(c)
        BY <4>1 DEF Timeout, Reset
      <4>2. CASE ReceiveEnd(c)
        BY <1>1, <4>2 DEF ReceiveEnd, TypeOK
      <4> QED
        BY <2>3, <4>1, <4>2
    <3> QED
      BY <1>8, <3>1
  <2>4. CASE Connect(c)
    <3>1. event[c] = "none" /\ alive[c] = "none" /\ c \notin linked
      BY <1>1, <2>4 DEF Connect, IInv, Sessions, Session, Listed, TypeOK
    <3>2. /\ event' = [event EXCEPT ![c] = "armed"]
          /\ deaf' = deaf /\ init' = init /\ init # "freed"
      BY <2>4 DEF Connect
    <3>3. CASE NewSession(c)
      <4>1. IsFiniteSet(linked \cup {c}) /\ Cardinality(linked \cup {c}) = Cardinality(linked) + 1
        BY <1>1, <3>1, FS_AddElement DEF Listed
      <4>2. alive' = [alive EXCEPT ![c] = "live"] /\ linked' = linked \cup {c} /\ count' = count + 1
        BY <3>3 DEF NewSession
      <4>3. linked' = {d \in Conns : alive'[d] = "live"}
        BY <1>1, <4>2 DEF Listed, TypeOK
      <4>4. DeafAfterRefusal'
        BY <1>1, <3>1, <3>2, <4>2 DEF Listed, DeafAfterRefusal, TypeOK
      <4> QED
        BY <1>1, <3>2, <4>1, <4>2, <4>3, <4>4 DEF Listed
    <3>4. CASE UNCHANGED <<alive, linked, count>>
      <4>1. DeafAfterRefusal'
        BY <1>1, <3>1, <3>2, <3>4 DEF Listed, DeafAfterRefusal, TypeOK
      <4> QED
        BY <1>1, <3>2, <3>4, <4>1 DEF Listed
    <3> QED
      BY <2>4, <3>3, <3>4 DEF Connect
  <2>5. CASE CloseRoot(c)
    <3>1. /\ event' = [event EXCEPT ![c] = "closed"] /\ ~own[c] /\ alive' = alive
          /\ UNCHANGED <<init, linked, count>>
      BY <2>5 DEF CloseRoot
    <3>2. alive[c] = "none"
      BY <1>1, <3>1 DEF IInv, Sessions, Session, TypeOK
    <3>3. DeafAfterRefusal'
      BY <1>1, <3>1, <3>2 DEF DeafAfterRefusal, TypeOK
    <3> QED
      BY <1>1, <3>1, <3>3 DEF Listed
  <2>6. CASE CloseDrop(c) \/ InputDrop(c)
    <3>1. alive[c] = "live" /\ Unref(c) /\ UNCHANGED <<init, deaf>>
      BY <2>6 DEF CloseDrop, InputDrop
    <3>2. event' = event \/ event' = [event EXCEPT ![c] = "closed"]
      BY <2>6 DEF CloseDrop, InputDrop
    <3>3. alive' = alive \/ alive' = [alive EXCEPT ![c] = "freed"]
      BY <3>1 DEF Unref
    <3>4. DeafAfterRefusal'
      <4>1. ASSUME NEW d \in Conns, alive[d] = "none" PROVE alive'[d] = "none"
        <5>1. d # c /\ alive \in [Conns -> {"none", "live", "freed"}]
          BY <1>1, <3>1, <4>1 DEF TypeOK
        <5> QED
          BY <3>3, <4>1, <5>1
      <4>2. \A d \in Conns : event[d] = "closed" => event'[d] = "closed"
        BY <1>1, <3>2 DEF TypeOK
      <4> QED
        BY <1>1, <3>1, <4>1, <4>2 DEF Listed, DeafAfterRefusal
    <3>5. /\ linked' = {d \in Conns : alive'[d] = "live"}
          /\ IsFiniteSet(linked') /\ count' = Cardinality(linked') /\ init' # "freed"
      BY <3>1, UnrefLists
    <3> QED
      BY <3>4, <3>5 DEF Listed
  <2> QED
    BY <1>10, <2>1, <2>2, <2>3, <2>4, <2>5, <2>6, Zenon DEF Quiet
<1> QED
    BY <1>3, <1>4, <1>5, <1>6, <1>7, <1>9, <1>10, NextIs, Zenon DEF Moves

-----------------------------------------------------------------------------
(* The other types. *)

PlainOK ==
    /\ manners \in Manners
    /\ init \in {"new", "ready", "freed"} /\ deaf \in BOOLEAN
    /\ linked \subseteq Conns /\ count \in Nat
    /\ event \in [Conns -> {"none", "armed", "deleted", "closed"}]
    /\ {own, edge, eof, closed, server, ticks, aborted} \subseteq [Conns -> BOOLEAN]
    /\ {works, waiting, refs, at, sends, place} \subseteq [Conns -> Nat]
    /\ alive \in [Conns -> {"none", "live", "freed"}]
    /\ input \in [Conns -> {"idle", "recv", "call", "hold", "fetch", "parse",
                            "respond", "drop", "return"}]
    /\ loop \in [Conns -> {"idle", "drop"}]

LEMMA PlainQuiet ==
    ASSUME IInv, NEW c \in Conns, Quiet(c)
    PROVE  PlainOK'
<1> USE DEF PlainOK, rootVars, listVars, connVars, workVars, textVars, sessVars, tickVars, Goto, Closed
<1>1. PlainOK
    BY DEF IInv, TypeInv, TypeOK
<1>2. Len(data[c]) \in Nat
    BY AtIs DEF IInv
<1>3. alive[c] = "live" => /\ refs[c] - 1 \in Nat /\ count - 1 \in Nat
  <2>1. \A n \in Nat : n # 0 => n - 1 \in Nat
    OBVIOUS
  <2> QED
    BY <2>1, LiveCounted
<1>4. CASE Connect(c)
  <2>1. CASE NewSession(c)
    <3>1. linked' \subseteq Conns /\ count' \in Nat
      BY <1>1, <2>1 DEF NewSession
    <3>2. /\ alive' \in [Conns -> {"none", "live", "freed"}] /\ refs' \in [Conns -> Nat]
          /\ server' \in [Conns -> BOOLEAN] /\ own' \in [Conns -> BOOLEAN]
      BY <1>1, <2>1 DEF NewSession
    <3> QED
      <4>1. event' \in [Conns -> {"none", "armed", "deleted", "closed"}]
        BY <1>1, <1>4 DEF Connect
      <4>2. UNCHANGED <<manners, init, deaf, works, waiting, edge, stream, eof, sends,
                        place, data, closed, hreq, input, at, loop, log, tickVars>>
        BY <1>4 DEF Connect
      <4> QED
        BY <1>1, <3>1, <3>2, <4>1, <4>2
  <2>2. CASE UNCHANGED <<alive, refs, server, listVars, own>>
    BY <1>1, <1>4, <2>2 DEF Connect
  <2> QED
    BY <1>4, <2>1, <2>2 DEF Connect
<1>5. CASE ReadEvent(c)
    BY <1>1, <1>5 DEF ReadEvent
<1>6. CASE HangUp(c)
    BY <1>1, <1>6 DEF HangUp
<1>7. CASE Timeout(c)
  <2>1. /\ UNCHANGED <<manners, rootVars, listVars, own, workVars, textVars, data,
                       sessVars, server, hreq, input, at, loop, log>>
        /\ ticks' = [ticks EXCEPT ![c] = FALSE]
        /\ aborted' = aborted \/ \E b \in BOOLEAN : aborted' = [aborted EXCEPT ![c] = b]
        /\ event' = event \/ event' = [event EXCEPT ![c] = Closed(c)]
    <3>1. (aborted[c] \/ event[c] = "armed") \in BOOLEAN
      BY <1>1
    <3> QED
      BY <1>7, <3>1 DEF Timeout
  <2> QED
    BY <1>1, <2>1
<1>19. CASE TimeoutCall(c)
    BY <1>1, <1>19 DEF TimeoutCall
<1>20. CASE Reset(c)
    BY <1>1, <1>20 DEF Reset
<1>21. CASE InputFetch(c)
    BY <1>1, <1>21 DEF InputFetch
<1>8. CASE CloseRoot(c)
    BY <1>1, <1>8 DEF CloseRoot
<1>9. CASE CloseMark(c)
    BY <1>1, <1>9 DEF CloseMark
<1>10. CASE CloseDrop(c)
    BY <1>1, <1>3, <1>10 DEF CloseDrop, Unref
<1>11. CASE InputTest(c)
    BY <1>1, <1>11 DEF InputTest
<1>12. CASE InputLock(c)
    BY <1>1, <1>12 DEF InputLock
<1>13. CASE ReceiveEnd(c)
    BY <1>1, <1>13 DEF ReceiveEnd
<1>14. CASE InputRoot(c)
    BY <1>1, <1>2, <1>14 DEF InputRoot
<1>15. CASE InputCall(c)
  <2>0. UNCHANGED <<manners, rootVars, listVars, connVars, textVars, data, sessVars,
                   server, hreq, loop, log, tickVars>>
    BY <1>15 DEF InputCall
  <2>1. at' = at \/ at' = [at EXCEPT ![c] = 0] \/ at' = [at EXCEPT ![c] = Len(data[c])]
    BY <1>15 DEF InputCall
  <2>2. input' = [input EXCEPT ![c] = "hold"] \/ input' = [input EXCEPT ![c] = "return"]
    BY <1>15 DEF InputCall
  <2>3. at' \in [Conns -> Nat]
    <3> DEFINE l == Len(data[c])
    <3>1. l \in Nat /\ at \in [Conns -> Nat]
      BY <1>1, <1>2
    <3> HIDE DEF l
    <3>2. at' = at \/ at' = [at EXCEPT ![c] = 0] \/ at' = [at EXCEPT ![c] = l]
      BY <2>1 DEF l
    <3> QED
      BY <3>1, <3>2
  <2> QED
    BY <1>1, <2>0, <2>2, <2>3
<1>16. CASE InputHold(c)
    BY <1>1, <1>16 DEF InputHold
<1>17. CASE InputDrop(c)
    BY <1>1, <1>3, <1>17 DEF InputDrop, Unref
<1>18. CASE ParseNone(c)
    BY <1>1, <1>18 DEF ParseNone
<1> HIDE DEF PlainOK
<1> QED
    BY <1>4, <1>5, <1>6, <1>7, <1>8, <1>9, <1>10, <1>11, <1>12, <1>13, <1>14, <1>15,
       <1>16, <1>17, <1>18, <1>19, <1>20, <1>21, Zenon DEF Quiet

LEMMA PlainStep == IInv /\ [Next]_vars => PlainOK'
<1> SUFFICES ASSUME IInv, [Next]_vars PROVE PlainOK'
    OBVIOUS
<1> USE DEF PlainOK, rootVars, listVars, connVars, workVars, textVars, sessVars, tickVars, Goto, Closed
<1>1. PlainOK /\ TypeOK
    BY DEF IInv, TypeInv, TypeOK
<1>2. CASE Ready
    BY <1>1, <1>2 DEF Ready
<1>3. CASE UNCHANGED vars
    BY <1>1, <1>3 DEF vars
<1>4. CASE Free
    BY <1>1, <1>4 DEF Free, Each
<1>5. ASSUME NEW c \in Conns, Quiet(c) PROVE PlainOK'
    BY <1>5, PlainQuiet
<1>6. ASSUME NEW c \in Conns, Reads(c) PROVE PlainOK'
  <2>1. CASE ParseBad(c)
    BY <1>1, <2>1 DEF ParseBad
  <2>2. CASE Parse(c)
    <3>1. LastLine(c) \in at[c] + 1 .. Len(data[c])
      BY <1>1, <2>2, LastLineIs DEF Parse
    <3>2. LastLine(c) \in Nat
      <4> DEFINE l == Len(data[c])
      <4>1. at[c] \in Nat /\ l \in Nat
        BY AtIs DEF IInv
      <4> HIDE DEF l
      <4>2. LastLine(c) \in at[c] + 1 .. l
        BY <3>1 DEF l
      <4> QED
        BY <4>1, <4>2
    <3>3. /\ UNCHANGED <<manners, rootVars, listVars, connVars, workVars, eof, sends, place,
                         sessVars, server, loop, tickVars>>
          /\ at' = [at EXCEPT ![c] = LastLine(c)] /\ Goto(c, "respond")
      BY <2>2 DEF Parse
    <3> QED
      BY <1>1, <3>2, <3>3
  <2>3. CASE \E n \in DOMAIN data[c] : ParseFail(c, n)
    BY <1>1, <2>3 DEF ParseFail
  <2> QED
    BY <1>6, <2>1, <2>2, <2>3 DEF Reads
<1>7. ASSUME NEW c \in Conns, Return(c) PROVE PlainOK'
  <2>1. /\ UNCHANGED <<manners, rootVars, listVars, event, own, edge, workVars, eof, sends,
                       place, sessVars, server, loop, tickVars>>
        /\ at' = [at EXCEPT ![c] = 0] /\ input[c] = "return"
        /\ input' = [input EXCEPT ![c] = "recv"]
    BY <1>7 DEF Return
  <2>2. at' \in [Conns -> Nat]
    BY <1>1, <2>1
  <2> QED
    BY <1>1, <2>1, <2>2
<1>8. ASSUME NEW c \in Conns, NEW seg \in Segments, Send(c, seg) PROVE PlainOK'
  <2>1. Len(seg) \in Nat
    BY <1>1, <1>8, SendIs
  <2>2. /\ UNCHANGED <<manners, rootVars, listVars, event, own, works, waiting, eof,
                       sessVars, server, input, at, loop, tickVars>>
        /\ place' = [place EXCEPT ![c] = @ + Len(seg)]
        /\ sends' = [sends EXCEPT ![c] = @ + 1]
        /\ edge' = [edge EXCEPT ![c] = TRUE]
    BY <1>8 DEF Send
  <2>3. place' \in [Conns -> Nat] /\ sends' \in [Conns -> Nat] /\ edge' \in [Conns -> BOOLEAN]
    <3>1. place \in [Conns -> Nat] /\ sends \in [Conns -> Nat] /\ edge \in [Conns -> BOOLEAN]
      BY <1>1
    <3> HIDE DEF PlainOK
    <3> QED
      BY <2>1, <2>2, <3>1
  <2>4. {own, edge, eof, closed, server, ticks, aborted}' \subseteq [Conns -> BOOLEAN]
    BY <1>1, <2>2, <2>3
  <2>5. {works, waiting, refs, at, sends, place}' \subseteq [Conns -> Nat]
    BY <1>1, <2>2, <2>3
  <2> QED
    BY <1>1, <2>2, <2>4, <2>5
<1>9. ASSUME NEW c \in Conns, NEW n \in 0 .. Len(stream[c]), NEW broken \in BOOLEAN,
             Receive(c, n, broken)
      PROVE  PlainOK'
  <2>1. /\ UNCHANGED <<manners, rootVars, listVars, connVars, eof, sends, place,
                       sessVars, server, at, loop, tickVars>>
        /\ Goto(c, "call")
    BY <1>9 DEF Receive
  <2>2. input' = [input EXCEPT ![c] = "call"]
    BY <2>1
  <2> QED
    BY <1>1, <2>1, <2>2
<1>10. ASSUME NEW c \in Conns, NEW code \in Codes,
             NEW outcome \in {"sent", "unsent", "error"}, Respond(c, code, outcome)
      PROVE  PlainOK'
  <2>1. /\ UNCHANGED <<manners, rootVars, listVars, own, workVars, sends, place,
                       sessVars, at, loop, tickVars>>
        /\ \E s \in BOOLEAN : server' = [server EXCEPT ![c] = s]
        /\ \E e \in BOOLEAN : eof' = [eof EXCEPT ![c] = e]
        /\ Goto(c, "parse")
    <3>1. /\ server' = [server EXCEPT ![c] = server[c] /\ outcome # "error"]
          /\ eof' = [eof EXCEPT ![c] = eof[c] \/ outcome = "error"]
      BY <1>10 DEF Respond
    <3>2. (server[c] /\ outcome # "error") \in BOOLEAN /\ (eof[c] \/ outcome = "error") \in BOOLEAN
      BY <1>1
    <3> QED
      BY <1>10, <3>1, <3>2 DEF Respond
  <2>2. \/ event' = [event EXCEPT ![c] = Closed(c)]
        \/ event' = event
    BY <1>1, <1>10 DEF Respond
  <2> QED
    BY <1>1, <2>1, <2>2
<1> HIDE DEF PlainOK
<1> QED
    BY <1>2, <1>3, <1>4, <1>5, <1>6, <1>7, <1>8, <1>9, <1>10, NextIs, Zenon DEF Moves

-----------------------------------------------------------------------------
(* The answer lies within the buffer, and no whole line is without a place. *)

InBuffer(c) == /\ at[c] <= Len(data[c])
               /\ input[c] = "respond" => at[c] # 0

LEMMA WithinStep == IInv /\ [Next]_vars => Within'
<1> SUFFICES ASSUME IInv, [Next]_vars PROVE Within'
    OBVIOUS
<1> USE DEF rootVars, listVars, connVars, workVars, textVars, sessVars, Goto, InBuffer
<1>1. /\ TypeInv /\ TypeOK /\ \A c \in Conns : InBuffer(c)
      /\ \A c \in Conns : at[c] \in Nat /\ Len(data[c]) \in Nat
    BY AtIs DEF IInv, TypeInv, Within
<1>2. CASE UNCHANGED <<at, data, input>>
    BY <1>1, <1>2 DEF Within
<1>3. ASSUME NEW c \in Conns, InBuffer(c)',
             \A d \in Conns \ {c} : at'[d] = at[d] /\ data'[d] = data[d] /\ input'[d] = input[d]
      PROVE  Within'
    BY <1>1, <1>3 DEF Within
<1>4. CASE Ready \/ Free \/ UNCHANGED vars
    BY <1>2, <1>4 DEF Ready, Free, vars
<1>5. ASSUME NEW c \in Conns, Quiet(c) PROVE Within'
  <2>1. data' = data
    BY <1>5, QuietTexts DEF texts
  <2>2. CASE ReadEvent(c) \/ HangUp(c) \/ Connect(c) \/ TimeoutCall(c) \/ Timeout(c)
             \/ Reset(c) \/ CloseRoot(c) \/ CloseMark(c) \/ CloseDrop(c) \/ InputTest(c)
    BY <1>2, <2>1, <2>2
    DEF ReadEvent, HangUp, Connect, TimeoutCall, Timeout, Reset, CloseRoot, CloseMark,
        CloseDrop, InputTest
  <2>3. ASSUME NEW l, input' = [input EXCEPT ![c] = l], l # "respond",
               \/ at' = at
               \/ at' = [at EXCEPT ![c] = 0]
               \/ at' = [at EXCEPT ![c] = Len(data[c])]
        PROVE  Within'
    <3> DEFINE n == Len(data[c])
    <3>1. n \in Nat /\ at[c] \in Nat /\ at[c] <= n
      BY <1>1
    <3> HIDE DEF n
    <3>2. at'[c] \in {at[c], 0, n} /\ input'[c] # "respond"
      BY <1>1, <2>3 DEF TypeOK, n
    <3>3. at'[c] <= n
      BY <3>1, <3>2
    <3>4. InBuffer(c)'
      BY <2>1, <3>2, <3>3 DEF n
    <3>5. \A d \in Conns \ {c} : at'[d] = at[d] /\ data'[d] = data[d] /\ input'[d] = input[d]
      BY <1>1, <2>1, <2>3 DEF TypeOK
    <3> QED
      BY <1>3, <3>4, <3>5
  <2>4. CASE InputLock(c) \/ ReceiveEnd(c) \/ InputHold(c) \/ InputDrop(c) \/ ParseNone(c)
    BY <2>3, <2>4 DEF InputLock, ReceiveEnd, InputHold, InputDrop, ParseNone
  <2>7. CASE InputFetch(c)
    BY <2>3, <2>7 DEF InputFetch
  <2>5. CASE InputRoot(c)
    BY <2>3, <2>5 DEF InputRoot
  <2>6. CASE InputCall(c)
    BY <2>3, <2>6 DEF InputCall
  <2> QED
    BY <1>5, <2>2, <2>4, <2>5, <2>6, <2>7, Zenon DEF Quiet
<1>6. ASSUME NEW c \in Conns, Reads(c) PROVE Within'
  <2>1. Len(data'[c]) = Len(data[c])
    BY <1>1, <1>6, ParseTexts DEF Reads
  <2>2. \A d \in Conns \ {c} : data'[d] = data[d]
    <3>1. \E t : data' = [data EXCEPT ![c] = t]
      <4>1. ParseBad(c) => data' = [data EXCEPT ![c] = CutTo(c, at[c] + 1)]
        BY Zenon DEF ParseBad
      <4>2. Parse(c) => data' = [data EXCEPT ![c] = CutTo(c, LastLine(c))]
        BY Zenon DEF Parse
      <4>3. \A n : ParseFail(c, n) => data' = [data EXCEPT ![c] = CutTo(c, n)]
        BY Zenon DEF ParseFail
      <4> QED
        BY <1>6, <4>1, <4>2, <4>3, Zenon DEF Reads
    <3> QED
      BY <1>1, <3>1 DEF TypeOK
  <2>3. CASE ParseBad(c) \/ \E n \in DOMAIN data[c] : ParseFail(c, n)
    <3>1. at' = at /\ input' = [input EXCEPT ![c] = "drop"]
      BY <2>3 DEF ParseBad, ParseFail
    <3> QED
      BY <1>1, <1>3, <2>1, <2>2, <3>1 DEF TypeOK
  <2>4. CASE Parse(c)
    <3>1. at' = [at EXCEPT ![c] = LastLine(c)] /\ input' = [input EXCEPT ![c] = "respond"]
      BY <2>4 DEF Parse
    <3>2. LastLine(c) \in at[c] + 1 .. Len(data[c])
      BY <1>1, <2>4, LastLineIs DEF Parse
    <3> DEFINE n == Len(data[c])
    <3>3. n \in Nat /\ at[c] \in Nat
      BY <1>1
    <3> HIDE DEF n
    <3>4. LastLine(c) \in at[c] + 1 .. n
      BY <3>2 DEF n
    <3>5. LastLine(c) <= n /\ LastLine(c) # 0
      BY <3>3, <3>4
    <3>6. at'[c] = LastLine(c)
      BY <1>1, <3>1 DEF TypeOK
    <3>7. InBuffer(c)'
      BY <2>1, <3>5, <3>6 DEF n
    <3> QED
      BY <1>1, <1>3, <2>2, <3>1, <3>7 DEF TypeOK
  <2> QED
    BY <1>6, <2>3, <2>4 DEF Reads
<1>7. ASSUME NEW c \in Conns, Return(c) PROVE Within'
  <2>1. at' = [at EXCEPT ![c] = 0] /\ input' = [input EXCEPT ![c] = "recv"]
    BY <1>7 DEF Return
  <2>2. /\ data' \in [Conns -> Seq(Line)]
        /\ \A d \in Conns \ {c} : data'[d] = data[d]
    BY <1>1, <1>7, ReturnIs
  <2>3. Len(data'[c]) \in Nat
    BY <2>2, Lengths
  <2>4. at'[c] = 0 /\ input'[c] = "recv"
    BY <1>1, <2>1 DEF TypeOK
  <2>5. \A d \in Conns \ {c} : at'[d] = at[d] /\ input'[d] = input[d]
    BY <1>1, <2>1 DEF TypeOK
  <2> DEFINE m == Len(data'[c])
  <2> HIDE DEF m
  <2>6. 0 <= m
    BY <2>3 DEF m
  <2>7. InBuffer(c)'
    BY <2>4, <2>6 DEF m
  <2> QED
    BY <1>3, <2>2, <2>5, <2>7
<1>8. ASSUME NEW c \in Conns, NEW seg \in Segments, Send(c, seg) PROVE Within'
    BY <1>2, <1>8 DEF Send
<1>9. ASSUME NEW c \in Conns, NEW n \in 0 .. Len(stream[c]), NEW broken \in BOOLEAN,
             Receive(c, n, broken)
      PROVE  Within'
  <2>1. at' = at /\ input' = [input EXCEPT ![c] = "call"]
    BY <1>9 DEF Receive
  <2>2. \A d \in Conns \ {c} : data'[d] = data[d]
    BY <1>1, <1>9, ReceiveIs
  <2>3. Len(data[c]) <= Len(data'[c])
    <3>1. PICK k \in Nat, m \in Nat \ {0} : Taken(c, n, k, m)
      BY <1>1, <1>9, ReceiveIs
    <3> QED
      BY <3>1 DEF Taken
  <2>4. at[c] <= Len(data'[c])
    <3> DEFINE p == Len(data[c])
               q == Len(data'[c])
    <3>1. p \in Nat /\ q \in Nat
      <4>1. data'[c] \in Seq(Line)
        BY <1>1, <1>9, ReceiveIs
      <4> QED
        BY <1>1, <4>1, Lengths
    <3> HIDE DEF p, q
    <3>2. at[c] \in Nat /\ at[c] <= p /\ p <= q
      BY <1>1, <2>3 DEF p, q
    <3>3. at[c] <= q
      BY <3>1, <3>2
    <3> QED
      BY <3>3 DEF q
  <2> QED
    BY <1>1, <1>3, <2>1, <2>2, <2>4 DEF TypeOK
<1>10. ASSUME NEW c \in Conns, NEW code \in Codes,
             NEW outcome \in {"sent", "unsent", "error"}, Respond(c, code, outcome)
      PROVE  Within'
  <2>1. at' = at /\ input' = [input EXCEPT ![c] = "parse"] /\ data' = data
    BY <1>10 DEF Respond
  <2> QED
    BY <1>1, <1>3, <2>1 DEF TypeOK
<1> HIDE DEF InBuffer
<1> QED
    BY <1>4, <1>5, <1>6, <1>7, <1>8, <1>9, <1>10, NextIs, Zenon DEF Moves

LEMMA NumberedStep == IInv /\ [Next]_vars => Numbered'
<1> SUFFICES ASSUME IInv, [Next]_vars PROVE Numbered'
    OBVIOUS
<1> USE DEF textVars
<1>1. TypeInv /\ TypeOK /\ Numbered
    BY DEF IInv, TypeInv
<1>2. CASE UNCHANGED stream
    BY <1>1, <1>2 DEF Numbered
<1>3. CASE Ready \/ Free \/ UNCHANGED vars
    BY <1>2, <1>3 DEF Ready, Free, vars
<1>4. ASSUME NEW c \in Conns, Quiet(c) \/ Reads(c) \/ Return(c) PROVE Numbered'
    BY <1>1, <1>2, <1>4, QuietTexts, ParseTexts DEF texts, Reads, Return
<1>5. ASSUME NEW c \in Conns, NEW seg \in Segments, Send(c, seg) PROVE Numbered'
  <2> DEFINE l == Len(stream[c])
             g == Len(seg)
  <2>1. /\ g \in Nat /\ Len(stream'[c]) = l + g
        /\ \A i \in 1 .. l : stream'[c][i] = stream[c][i]
        /\ \A i \in l + 1 .. l + g : stream'[c][i].place = 2 * (place[c] + (i - l))
        /\ \A d \in Conns \ {c} : stream'[d] = stream[d]
    BY <1>1, <1>5, SendIs
  <2>2. l \in Nat /\ place[c] \in Nat /\ \A i \in 1 .. l : stream[c][i].place # 0
    <3>1. stream[c] \in Seq(Line) /\ place[c] \in Nat
      BY <1>1 DEF TypeOK
    <3> QED
      BY <1>1, <3>1, Lengths DEF Numbered
  <2> HIDE DEF l, g
  <2>3. \A i \in 1 .. l + g : stream'[c][i].place # 0
    <3> TAKE i \in 1 .. l + g
    <3>1. CASE i \in 1 .. l
      BY <2>1, <2>2, <3>1
    <3>2. CASE i \in l + 1 .. l + g
      <4>1. 2 * (place[c] + (i - l)) # 0
        BY <2>1, <2>2, <3>2
      <4> QED
        BY <2>1, <3>2, <4>1
    <3>3. i \in 1 .. l \/ i \in l + 1 .. l + g
      BY <2>1, <2>2
    <3> QED
      BY <3>1, <3>2, <3>3
  <2> QED
    BY <1>1, <2>1, <2>3 DEF Numbered
<1>6. ASSUME NEW c \in Conns, NEW n \in 0 .. Len(stream[c]), NEW broken \in BOOLEAN,
             Receive(c, n, broken)
      PROVE  Numbered'
  <2>1. PICK k \in Nat, m \in Nat \ {0} : Taken(c, n, k, m)
    BY <1>1, <1>6, ReceiveIs
  <2> DEFINE l == Len(stream[c])
  <2>2. /\ Len(stream'[c]) = l - n /\ \A i \in 1 .. l - n : stream'[c][i].place = stream[c][n + i].place
        /\ \A d \in Conns \ {c} : stream'[d] = stream[d]
    <3>1. /\ Len(stream'[c]) = l - n
          /\ \A i \in 1 .. l - n : stream'[c][i].place = stream[c][n + i].place
      BY <2>1, Zenon DEF Taken
    <3> QED
      BY <1>1, <1>6, <3>1, ReceiveIs
  <2>3. l \in Nat /\ n \in 0 .. l /\ \A i \in 1 .. l : stream[c][i].place # 0
    <3>1. stream[c] \in Seq(Line)
      BY <1>1 DEF TypeOK
    <3> QED
      BY <1>1, <1>6, <3>1, Lengths DEF Numbered
  <2> HIDE DEF l
  <2>4. \A i \in 1 .. l - n : n + i \in 1 .. l
    BY <2>3
  <2>5. \A i \in 1 .. l - n : stream'[c][i].place # 0
    BY <2>2, <2>3, <2>4
  <2> QED
    BY <1>1, <2>2, <2>5 DEF Numbered
<1>7. ASSUME NEW c \in Conns, NEW code \in Codes,
             NEW outcome \in {"sent", "unsent", "error"}, Respond(c, code, outcome)
      PROVE  Numbered'
  <2>1. /\ stream'[c] = stream[c] \/ stream'[c] = <<>>
        /\ \A d \in Conns \ {c} : stream'[d] = stream[d]
    BY <1>1, <1>7, RespondTexts
  <2>2. Len(<<>>) = 0
    OBVIOUS
  <2>3. \A i \in 1 .. Len(stream'[c]) : stream'[c][i].place # 0
    BY <1>1, <2>1, <2>2 DEF Numbered
  <2> QED
    BY <1>1, <2>1, <2>3 DEF Numbered
<1> QED
    BY <1>3, <1>4, <1>5, <1>6, <1>7, NextIs, Zenon DEF Moves

-----------------------------------------------------------------------------
(* The invariant, and what it says. *)

LEMMA Inductive == IInv /\ [Next]_vars => IInv'
<1> SUFFICES ASSUME IInv, [Next]_vars PROVE IInv'
    OBVIOUS
<1>1. PlainOK' /\ TextsOK'
    BY PlainStep, TextStep DEF IInv
<1>2. TypeOK'
    BY <1>1 DEF PlainOK, TextsOK, TypeOK
<1> QED
    BY <1>2, WithinStep, NumberedStep, SessionStep, ListStep DEF IInv, TypeInv

LEMMA InvInit == Init => IInv
<1> SUFFICES ASSUME Init PROVE IInv
    OBVIOUS
<1>1. Sessions
    BY DEF Init, Each, Sessions, Session, Referred, Holds, Holding
<1>2. Listed
  <2>1. linked = {c \in Conns : alive[c] = "live"} /\ linked = {} /\ count = 0 /\ ~deaf
    BY DEF Init, Each
  <2> QED
    BY <2>1, FS_EmptySet DEF Init, Listed, DeafAfterRefusal
<1> QED
    BY <1>1, <1>2, TypeInit DEF IInv

LEMMA Invariant == Spec => []IInv
BY InvInit, Inductive, PTL DEF Spec

(* No INPUT that has its reference finds its session freed, nor does the CLOSE,
   whenever a timeout, a reset or an answer closes the connection and whichever
   of the two ends last: the count that each of them holds keeps the session
   (shttpd.c, close_cb).  Before its reference the INPUT is not safe. *)
THEOREM SessionsOutliveTheirCallbacks == Spec => []NoUseAfterFree
<1>1. IInv => NoUseAfterFree
  <2> SUFFICES ASSUME IInv, NEW c \in Conns, own[c], alive[c] = "freed"
      PROVE  input[c] \notin Holding /\ loop[c] # "drop" /\ event[c] = "closed"
    BY DEF NoUseAfterFree
  <2>1. Session(c) /\ event[c] \in {"none", "armed", "deleted", "closed"}
    BY DEF IInv, Sessions, TypeInv, TypeOK
  <2> QED
    BY <2>1 DEF Session, Holds
<1> QED
    BY <1>1, Invariant, PTL

(* The list, its counter and the references of the sessions agree, and the daemon
   is deaf only after it refused a session (shttpd.c, connect_cb and close_cb). *)
THEOREM SessionsAreAccounted == Spec => []SessionsAccounted
<1>1. IInv => SessionsAccounted
    BY DEF IInv, TypeInv, Listed, Sessions, Session, Referred, Holds, Holding, SessionsAccounted
<1> QED
    BY <1>1, Invariant, PTL

-----------------------------------------------------------------------------
(* The text of the requests. *)

(* A place x lies before the line; before a whole line there is room for its
   front. *)
Ahead(x, line) == x < line.place /\ (line.part = "all" => x + 1 < line.place)

Ordered(c) ==
    LET D == data[c]
        S == stream[c]
    IN /\ \A i, j \in 1 .. Len(D) : i < j => D[i].place < D[j].place
       /\ \A i, j \in 1 .. Len(S) : i < j => Ahead(S[i].place, S[j])
       /\ \A i \in 1 .. Len(D), j \in 1 .. Len(S) : Ahead(D[i].place, S[j])

(* Nothing is numbered that was not sent yet. *)
Sensible(c) ==
    /\ \A i \in 1 .. Len(data[c]) : data[c][i].place <= 2 * place[c]
    /\ \A i \in 1 .. Len(stream[c]) : stream[c][i].place <= 2 * place[c]
    /\ AnsweredTo(c) \in Nat /\ AnsweredTo(c) <= 2 * place[c]

(* What is to be read lies behind what was answered. *)
Unread(c) ==
    /\ \A i \in 1 .. Len(data[c]) : i > at[c] => AnsweredTo(c) < data[c][i].place
    /\ \A i \in 1 .. Len(stream[c]) : Ahead(AnsweredTo(c), stream[c][i])
    /\ input[c] \in {"idle", "recv", "call"} => at[c] = 0

(* So does what the request is made of. *)
Asked(c) ==
    /\ \A f \in Fields : hreq[c][f] = 0 \/ hreq[c][f] > AnsweredTo(c)
    /\ input[c] = "respond" => /\ AnsweredTo(c) < hreq[c].req
                               /\ hreq[c].req <= data[c][at[c]].place

Logged(c) ==
    /\ \A i \in 1 .. Len(log[c]) : log[c][i].upto <= AnsweredTo(c)
    /\ \A i, j \in 1 .. Len(log[c]) : i < j => log[c][i].upto < log[c][j].req

Requested(c) == Ordered(c) /\ Sensible(c) /\ Unread(c) /\ Asked(c) /\ Logged(c)

Requests == \A c \in Conns : Requested(c)

RInv == IInv /\ Requests

-----------------------------------------------------------------------------
(* The other connections are left alone. *)
Apart(c) ==
    \A d \in Conns \ {c} :
        /\ stream'[d] = stream[d] /\ data'[d] = data[d] /\ hreq'[d] = hreq[d]
        /\ log'[d] = log[d] /\ at'[d] = at[d] /\ place'[d] = place[d]
        /\ input'[d] = input[d]

LEMMA ApartKeep ==
    ASSUME Requests, NEW c \in Conns, Apart(c), Requested(c)'
    PROVE  Requests'
<1> SUFFICES ASSUME NEW d \in Conns PROVE Requested(d)'
    BY DEF Requests
<1>1. CASE d = c
    BY <1>1
<1>2. CASE d # c
  <2>1. Requested(d) /\ d \in Conns \ {c}
    BY <1>2 DEF Requests
  <2>2. /\ stream'[d] = stream[d] /\ data'[d] = data[d] /\ hreq'[d] = hreq[d]
        /\ log'[d] = log[d] /\ at'[d] = at[d] /\ place'[d] = place[d]
        /\ input'[d] = input[d]
    BY <2>1 DEF Apart
  <2>3. AnsweredTo(d)' = AnsweredTo(d)
    BY <2>2 DEF AnsweredTo
  <2>4. Ordered(d)'
    BY <2>1, <2>2 DEF Requested, Ordered
  <2>5. Sensible(d)'
    BY <2>1, <2>2, <2>3 DEF Requested, Sensible
  <2>6. Unread(d)'
    BY <2>1, <2>2, <2>3 DEF Requested, Unread
  <2>7. Asked(d)' /\ Logged(d)'
    BY <2>1, <2>2, <2>3 DEF Requested, Asked, Logged
  <2> QED
    BY <2>4, <2>5, <2>6, <2>7 DEF Requested
<1> QED
    BY <1>1, <1>2

(* The texts of a connection, as numbers and lines. *)
LEMMA TextIs ==
    ASSUME TypeInv, NEW c \in Conns
    PROVE  /\ data[c] \in Seq(Line) /\ stream[c] \in Seq(Line)
           /\ Len(data[c]) \in Nat /\ Len(stream[c]) \in Nat
           /\ \A i \in 1 .. Len(data[c]) : data[c][i] \in Line /\ data[c][i].place \in Nat
           /\ \A i \in 1 .. Len(stream[c]) : stream[c][i] \in Line /\ stream[c][i].place \in Nat
           /\ at[c] \in Nat /\ place[c] \in Nat /\ hreq[c] \in Request
           /\ log[c] \in Seq(Answer)
<1>1. /\ data[c] \in Seq(Line) /\ stream[c] \in Seq(Line)
      /\ at[c] \in Nat /\ place[c] \in Nat /\ hreq[c] \in Request
      /\ log[c] \in Seq(Answer)
    BY DEF TypeInv, TypeOK
<1>2. \A line \in Line : line.place \in Nat
    BY DEF Line
<1> QED
    BY <1>1, <1>2, Lengths

(* A step that handles no text, and leaves the answer or takes it all back. *)
LEMMA QuietKeeps ==
    ASSUME TypeInv, NEW c \in Conns, Requested(c), UNCHANGED texts, place'[c] = place[c],
           at'[c] = at[c] \/ at'[c] = Len(data[c]),
           input'[c] \in {"idle", "recv", "call"} => at'[c] = 0,
           input'[c] = "respond" => input[c] = "respond" /\ at'[c] = at[c]
    PROVE  Requested(c)'
<1>1. /\ stream'[c] = stream[c] /\ data'[c] = data[c] /\ hreq'[c] = hreq[c]
      /\ log'[c] = log[c] /\ AnsweredTo(c)' = AnsweredTo(c)
    BY DEF texts, AnsweredTo
<1> DEFINE l == Len(data[c])
<1>2. l \in Nat
    BY TextIs
<1> HIDE DEF l
<1>3. \A i \in 1 .. l : ~(i > l)
    BY <1>2
<1>4. Ordered(c)' /\ Sensible(c)'
    BY <1>1 DEF Requested, Ordered, Sensible
<1>5. Unread(c)'
  <2>1. \A i \in 1 .. l : i > at'[c] => AnsweredTo(c) < data[c][i].place
    BY <1>3 DEF Requested, Unread, l
  <2> QED
    BY <1>1, <2>1 DEF Requested, Unread, l
<1>6. Asked(c)' /\ Logged(c)'
    BY <1>1 DEF Requested, Asked, Logged
<1> QED
    BY <1>4, <1>5, <1>6 DEF Requested

-----------------------------------------------------------------------------
(* What a client sends comes behind all it sent before. *)
LEMMA SendKeeps ==
    ASSUME TypeInv, NEW c \in Conns, Requested(c), NEW seg \in Segments, Send(c, seg)
    PROVE  Requested(c)'
<1> DEFINE D == data[c]
           S == stream[c]
           N == stream'[c]
           l == Len(S)
           g == Len(seg)
           b == Len(D)
           p == place[c]
           A == AnsweredTo(c)
<1>1. /\ l \in Nat /\ b \in Nat /\ p \in Nat
      /\ \A i \in 1 .. b : D[i].place \in Nat
      /\ \A i \in 1 .. l : S[i].place \in Nat
    BY TextIs
<1>2. /\ g \in Nat /\ Len(N) = l + g
      /\ \A i \in 1 .. l : N[i] = S[i]
      /\ \A i \in l + 1 .. l + g : N[i].place = 2 * (p + (i - l))
    BY SendIs DEF TypeInv
<1>3. /\ data' = data /\ hreq' = hreq /\ log' = log /\ at' = at /\ input' = input
      /\ place' = [place EXCEPT ![c] = p + g]
    BY DEF Send
<1>4. place'[c] = p + g /\ AnsweredTo(c)' = A
    BY <1>3 DEF TypeInv, TypeOK, AnsweredTo
<1>5. /\ \A i, j \in 1 .. b : i < j => D[i].place < D[j].place
      /\ \A i, j \in 1 .. l : i < j => Ahead(S[i].place, S[j])
      /\ \A i \in 1 .. b, j \in 1 .. l : Ahead(D[i].place, S[j])
      /\ \A i \in 1 .. b : D[i].place <= 2 * p
      /\ \A i \in 1 .. l : S[i].place <= 2 * p
      /\ A \in Nat /\ A <= 2 * p
      /\ \A i \in 1 .. l : Ahead(A, S[i])
    BY Zenon DEF Requested, Ordered, Sensible, Unread
<1> HIDE DEF D, S, N, l, g, b, p, A
<1>6. ASSUME NEW j \in l + 1 .. l + g, NEW x \in Nat, x <= 2 * p PROVE Ahead(x, N[j])
  <2>1. N[j].place = 2 * (p + (j - l)) /\ j - l \in 1 .. g
    BY <1>1, <1>2
  <2> DEFINE i == j - l
  <2> HIDE DEF i
  <2>2. N[j].place = 2 * (p + i) /\ i \in Nat /\ i # 0
    BY <1>1, <1>2, <2>1 DEF i
  <2>3. x + 1 < 2 * (p + i) /\ x < 2 * (p + i)
    BY <1>1, <1>6, <2>2
  <2> QED
    BY <2>2, <2>3 DEF Ahead
<1>7. ASSUME NEW i \in l + 1 .. l + g, NEW j \in l + 1 .. l + g, i < j
      PROVE  Ahead(N[i].place, N[j])
  <2>1. N[i].place = 2 * (p + (i - l)) /\ N[j].place = 2 * (p + (j - l))
    BY <1>2
  <2>2. 2 * (p + (i - l)) + 1 < 2 * (p + (j - l)) /\ 2 * (p + (i - l)) < 2 * (p + (j - l))
    BY <1>1, <1>2, <1>7
  <2> QED
    BY <2>1, <2>2 DEF Ahead
<1>8. \A i \in 1 .. l + g : i \in 1 .. l \/ i \in l + 1 .. l + g
    BY <1>1, <1>2
<1>9. \A i, j \in 1 .. l + g : i < j => Ahead(N[i].place, N[j])
  <2> TAKE i, j \in 1 .. l + g
  <2> HAVE i < j
  <2>1. CASE j \in 1 .. l
    <3>1. i \in 1 .. l
      BY <1>1, <1>2, <2>1
    <3> QED
      BY <1>2, <1>5, <2>1, <3>1
  <2>2. CASE j \in l + 1 .. l + g /\ i \in 1 .. l
    <3>1. N[i].place \in Nat /\ N[i].place <= 2 * p
      BY <1>1, <1>2, <1>5, <2>2
    <3> QED
      BY <1>6, <2>2, <3>1
  <2>3. CASE j \in l + 1 .. l + g /\ i \in l + 1 .. l + g
    BY <1>7, <2>3
  <2> QED
    BY <1>8, <2>1, <2>2, <2>3
<1>10. \A j \in 1 .. l + g : /\ Ahead(A, N[j])
                             /\ \A i \in 1 .. b : Ahead(D[i].place, N[j])
  <2> TAKE j \in 1 .. l + g
  <2>1. CASE j \in 1 .. l
    BY <1>2, <1>5, <2>1
  <2>2. CASE j \in l + 1 .. l + g
    BY <1>1, <1>5, <1>6, <2>2
  <2> QED
    BY <1>8, <2>1, <2>2
<1>11. \A j \in 1 .. l + g : N[j].place <= 2 * (p + g)
  <2> TAKE j \in 1 .. l + g
  <2>1. CASE j \in 1 .. l
    <3>1. N[j].place \in Nat /\ N[j].place <= 2 * p
      BY <1>1, <1>2, <1>5, <2>1
    <3> QED
      BY <1>1, <1>2, <3>1
  <2>2. CASE j \in l + 1 .. l + g
    <3>1. 2 * (p + (j - l)) <= 2 * (p + g)
      BY <1>1, <1>2, <2>2
    <3> QED
      BY <1>2, <2>2, <3>1
  <2> QED
    BY <1>8, <2>1, <2>2
<1>12. /\ \A i \in 1 .. b : D[i].place <= 2 * (p + g)
       /\ A <= 2 * (p + g)
    BY <1>1, <1>2, <1>5
<1>13. data'[c] = D /\ stream'[c] = N /\ Len(D) = b /\ Len(N) = l + g
    BY <1>2, <1>3 DEF D, N, b
<1>14. Ordered(c)'
    BY <1>5, <1>9, <1>10, <1>13, Zenon DEF Ordered
<1>15. Sensible(c)'
    BY <1>4, <1>5, <1>11, <1>12, <1>13, Zenon DEF Sensible
<1>16. Unread(c)'
  <2>1. Unread(c)
    BY DEF Requested
  <2> QED
    BY <1>3, <1>4, <1>10, <1>13, <2>1 DEF Unread, D, b, A
<1>17. Asked(c)' /\ Logged(c)'
    BY <1>3, <1>4 DEF Requested, Asked, Logged, A
<1> QED
    BY <1>14, <1>15, <1>16, <1>17 DEF Requested

(* What recv takes keeps its order, and the front of a broken line finds room. *)
LEMMA ReceiveKeeps ==
    ASSUME TypeInv, NEW c \in Conns, Requested(c),
           NEW n \in 0 .. Len(stream[c]), NEW broken \in BOOLEAN, Receive(c, n, broken)
    PROVE  Requested(c)'
<1> DEFINE D == data[c]
           S == stream[c]
           E == data'[c]
           N == stream'[c]
           l == Len(S)
           b == Len(D)
           p == place[c]
           A == AnsweredTo(c)
<1>1. /\ l \in Nat /\ b \in Nat /\ p \in Nat
      /\ \A i \in 1 .. b : D[i].place \in Nat
      /\ \A i \in 1 .. l : S[i].place \in Nat
    BY TextIs
<1>2. PICK k \in Nat, m \in Nat \ {0} : Taken(c, n, k, m)
    BY ReceiveIs
<1>3. /\ k <= b /\ n <= l /\ Len(E) = k + m /\ Len(N) = l - n
      /\ m = n \/ (m = n + 1 /\ m <= l /\ S[m].part = "all" /\ N[1].part = "back")
      /\ \A i \in 1 .. k : E[i] = D[i]
      /\ \A i \in 1 .. m : E[k + i].place = IF i <= n THEN S[i].place ELSE S[i].place - 1
      /\ \A i \in 1 .. l - n : /\ N[i].place = S[n + i].place
                               /\ N[i].part = "all" => S[n + i].part = "all"
    BY <1>2, Zenon DEF Taken
<1>4. /\ hreq' = hreq /\ log' = log /\ at' = at /\ place' = place
      /\ input' = [input EXCEPT ![c] = "call"] /\ input[c] = "recv"
    BY DEF Receive, Goto
<1>5. /\ place'[c] = p /\ AnsweredTo(c)' = A /\ input'[c] = "call" /\ at'[c] = at[c]
    BY <1>4 DEF TypeInv, TypeOK, AnsweredTo
<1>6. /\ \A i, j \in 1 .. b : i < j => D[i].place < D[j].place
      /\ \A i, j \in 1 .. l : i < j => Ahead(S[i].place, S[j])
      /\ \A i \in 1 .. b, j \in 1 .. l : Ahead(D[i].place, S[j])
      /\ \A i \in 1 .. b : D[i].place <= 2 * p
      /\ \A i \in 1 .. l : S[i].place <= 2 * p
      /\ A \in Nat /\ A <= 2 * p
      /\ \A i \in 1 .. l : Ahead(A, S[i])
  <2>4. /\ \A i, j \in 1 .. b : i < j => D[i].place < D[j].place
        /\ \A i, j \in 1 .. l : i < j => Ahead(S[i].place, S[j])
        /\ \A i \in 1 .. b, j \in 1 .. l : Ahead(D[i].place, S[j])
    BY Zenon DEF Requested, Ordered
  <2>5. /\ \A i \in 1 .. b : D[i].place <= 2 * p
        /\ \A i \in 1 .. l : S[i].place <= 2 * p
        /\ A \in Nat /\ A <= 2 * p
    BY Zenon DEF Requested, Sensible
  <2>6. \A i \in 1 .. l : Ahead(A, S[i])
    BY Zenon DEF Requested, Unread
  <2> QED
    BY <2>4, <2>5, <2>6, Zenon
<1>6a. at[c] = 0 /\ at[c] \in Nat
  <2>1. at[c] = 0
    BY <1>4 DEF Requested, Unread
  <2> QED
    BY <2>1
<1>6b. \A i \in 1 .. b : i > at[c] => A < D[i].place
    BY DEF Requested, Unread
<1> HIDE DEF D, S, E, N, l, b, p, A
<1>7. n \in 0 .. l /\ n \in Nat
    BY <1>1 DEF l, S
(* A line of the buffer is an old one or from the stream. *)
<1> DEFINE new(i) == i - k
<1>8. ASSUME NEW i \in 1 .. k + m
      PROVE  \/ i \in 1 .. k /\ i \in 1 .. b /\ E[i] = D[i]
             \/ /\ i \in k + 1 .. k + m /\ new(i) \in 1 .. m /\ new(i) \in 1 .. l
                /\ \/ new(i) <= n /\ E[i].place = S[new(i)].place
                   \/ /\ new(i) = n + 1 /\ m = n + 1 /\ S[new(i)].part = "all"
                      /\ E[i].place = S[new(i)].place - 1 /\ N[1].part = "back"
  <2>1. CASE i \in 1 .. k
    <3>1. i \in 1 .. b
      BY <1>1, <1>3, <2>1
    <3> QED
      BY <1>3, <2>1, <3>1
  <2>2. CASE i \notin 1 .. k
    <3> DEFINE j == new(i)
    <3>1. i \in k + 1 .. k + m /\ j \in 1 .. m /\ k + j = i
      BY <2>2
    <3>2. j \in 1 .. l
      BY <1>1, <1>3, <1>7, <3>1
    <3> HIDE DEF j
    <3>3. E[i].place = IF j <= n THEN S[j].place ELSE S[j].place - 1
      BY <1>3, <3>1
    <3>4. j <= n \/ (j = n + 1 /\ m = n + 1)
      BY <1>3, <1>7, <3>1
    <3>5. ~(j <= n) => m = n + 1 /\ S[j].part = "all" /\ N[1].part = "back"
      BY <1>3, <1>7, <3>1, <3>4
    <3>6. \/ j <= n /\ E[i].place = S[j].place
          \/ /\ j = n + 1 /\ m = n + 1 /\ S[j].part = "all"
             /\ E[i].place = S[j].place - 1 /\ N[1].part = "back"
      BY <3>3, <3>4, <3>5
    <3> QED
      BY <3>1, <3>2, <3>6 DEF j
  <2> QED
    BY <2>1, <2>2
<1> HIDE DEF new
(* Whatever is ahead of the line in the stream is ahead of what is taken of it. *)
<1>9. ASSUME NEW i \in k + 1 .. k + m, NEW x \in Nat, Ahead(x, S[new(i)])
      PROVE  x < E[i].place
  <2>1. i \in 1 .. k + m /\ i \notin 1 .. k
    BY <1>9
  <2>2. new(i) \in 1 .. l /\ S[new(i)].place \in Nat
    BY <1>1, <1>8, <2>1
  <2>3. \/ E[i].place = S[new(i)].place
        \/ S[new(i)].part = "all" /\ E[i].place = S[new(i)].place - 1
    BY <1>8, <2>1
  <2> DEFINE q == S[new(i)].place
  <2>4. q \in Nat /\ x < q /\ (S[new(i)].part = "all" => x + 1 < q)
    BY <1>9, <2>2 DEF Ahead
  <2> HIDE DEF q
  <2>5. E[i].place = q \/ (x + 1 < q /\ E[i].place = q - 1)
    BY <2>3, <2>4 DEF q
  <2> QED
    BY <2>4, <2>5
<1>10. \A i \in 1 .. k + m : i \in 1 .. k \/ i \in k + 1 .. k + m
    BY <1>1
<1>11. \A i \in k + 1 .. k + m : /\ new(i) \in 1 .. l /\ i \in 1 .. k + m
                                 /\ E[i].place \in Nat /\ E[i].place <= S[new(i)].place
  <2> TAKE i \in k + 1 .. k + m
  <2>1. i \in 1 .. k + m /\ i \notin 1 .. k
    OBVIOUS
  <2>2. new(i) \in 1 .. l /\ Ahead(A, S[new(i)]) /\ S[new(i)].place \in Nat
    BY <1>1, <1>6, <1>8, <2>1
  <2>3. A < E[i].place
    BY <1>6, <1>9, <2>2
  <2>4. E[i].place = S[new(i)].place \/ E[i].place = S[new(i)].place - 1
    BY <1>8, <2>1
  <2> DEFINE q == S[new(i)].place
             e == E[i].place
  <2> HIDE DEF q, e
  <2>5. q \in Nat /\ A \in Nat /\ A < e /\ (e = q \/ e = q - 1)
    BY <1>6, <2>2, <2>3, <2>4 DEF q, e
  <2>6. e \in Nat /\ e <= q
    BY <2>5
  <2> QED
    BY <2>1, <2>2, <2>6 DEF q, e
<1>12. \A i, j \in 1 .. k + m : i < j => E[i].place < E[j].place
  <2> TAKE i, j \in 1 .. k + m
  <2> HAVE i < j
  <2>1. CASE j \in 1 .. k
    <3>1. i \in 1 .. k /\ i \in 1 .. b /\ j \in 1 .. b
      BY <1>1, <1>3, <2>1
    <3> QED
      BY <1>3, <1>6, <2>1, <3>1
  <2>2. CASE i \in 1 .. k /\ j \in k + 1 .. k + m
    <3>1. i \in 1 .. b /\ E[i] = D[i]
      BY <1>1, <1>3, <2>2
    <3>2. Ahead(D[i].place, S[new(j)]) /\ D[i].place \in Nat
      BY <1>1, <1>6, <1>11, <2>2, <3>1
    <3> QED
      BY <1>9, <2>2, <3>1, <3>2
  <2>3. CASE i \in k + 1 .. k + m /\ j \in k + 1 .. k + m
    <3>1. new(i) < new(j)
      BY DEF new
    <3>2. Ahead(S[new(i)].place, S[new(j)]) /\ S[new(i)].place \in Nat
      BY <1>1, <1>6, <1>11, <2>3, <3>1
    <3>3. S[new(i)].place < E[j].place
      BY <1>9, <2>3, <3>2
    <3> DEFINE q == S[new(i)].place
               e == E[i].place
               f == E[j].place
    <3>4. q \in Nat /\ e \in Nat /\ f \in Nat /\ e <= q /\ q < f
      BY <1>11, <2>3, <3>2, <3>3
    <3> HIDE DEF q, e, f
    <3>5. e < f
      BY <3>4
    <3> QED
      BY <3>5 DEF e, f
  <2> QED
    BY <1>10, <2>1, <2>2, <2>3
<1>13. \A j \in 1 .. l - n : /\ n + j \in 1 .. l
                             /\ \A x \in Nat : Ahead(x, S[n + j]) => Ahead(x, N[j])
  <2> TAKE j \in 1 .. l - n
  <2>1. n + j \in 1 .. l
    BY <1>1, <1>7
  <2>2. \A x \in Nat : Ahead(x, S[n + j]) => Ahead(x, N[j])
    BY <1>3, <2>1 DEF Ahead
  <2> QED
    BY <2>1, <2>2
<1>14. \A i, j \in 1 .. l - n : i < j => Ahead(N[i].place, N[j])
  <2> TAKE i, j \in 1 .. l - n
  <2> HAVE i < j
  <2>1. n + i < n + j /\ n + i \in 1 .. l /\ n + j \in 1 .. l
    BY <1>1, <1>7, <1>13
  <2>2. Ahead(S[n + i].place, S[n + j]) /\ S[n + i].place \in Nat
    BY <1>1, <1>6, <2>1
  <2> QED
    BY <1>3, <1>13, <2>2
<1>15. \A j \in 1 .. l - n : /\ Ahead(A, N[j]) /\ N[j].place <= 2 * p
                             /\ \A i \in 1 .. b : Ahead(D[i].place, N[j])
    BY <1>1, <1>3, <1>6, <1>13
<1>16. \A i \in 1 .. k + m, j \in 1 .. l - n : Ahead(E[i].place, N[j])
  <2> TAKE i \in 1 .. k + m, j \in 1 .. l - n
  <2>1. CASE i \in 1 .. k
    BY <1>8, <1>15, <2>1
  <2>2. CASE i \in k + 1 .. k + m
    <3>1. new(i) \in 1 .. l /\ n + j \in 1 .. l /\ E[i].place \in Nat
      BY <1>11, <1>13, <2>2
    <3>2. CASE new(i) <= n
      <4>1. new(i) < n + j
        BY <1>7, <3>1, <3>2
      <4>2. Ahead(S[new(i)].place, S[n + j]) /\ S[new(i)].place \in Nat
        BY <1>1, <1>6, <3>1, <4>1
      <4>3. E[i].place = S[new(i)].place
        BY <1>7, <1>8, <2>2, <3>2
      <4> QED
        BY <1>13, <4>2, <4>3
    <3>3. CASE ~(new(i) <= n)
      <4>1. /\ new(i) = n + 1 /\ N[1].part = "back" /\ E[i].place = S[n + 1].place - 1
        BY <1>8, <2>2, <3>3
      <4>2. CASE j = 1
        <5>1. N[1].place = S[n + 1].place /\ S[n + 1].place \in Nat
          BY <1>1, <1>3, <3>1, <4>2
        <5> QED
          BY <4>1, <4>2, <5>1 DEF Ahead
      <4>3. CASE j # 1
        <5>1. new(i) < n + j
          BY <1>7, <4>1, <4>3
        <5>2. Ahead(S[n + 1].place, S[n + j]) /\ S[n + 1].place \in Nat
          BY <1>1, <1>6, <3>1, <4>1, <5>1
        <5>3. Ahead(S[n + 1].place, N[j])
          BY <1>13, <5>2
        <5>4. N[j].place \in Nat
          BY <1>1, <1>3, <3>1
        <5> DEFINE q == S[n + 1].place
                   r == N[j].place
        <5>5. q \in Nat /\ r \in Nat /\ q < r /\ (N[j].part = "all" => q + 1 < r)
          BY <5>2, <5>3, <5>4 DEF Ahead
        <5> HIDE DEF q, r
        <5>6. q - 1 < r /\ (N[j].part = "all" => q - 1 + 1 < r)
          BY <5>5
        <5> QED
          BY <4>1, <5>6 DEF Ahead, q, r
      <4> QED
        BY <4>2, <4>3
    <3> QED
      BY <3>2, <3>3
  <2> QED
    BY <1>10, <2>1, <2>2
<1>17. \A i \in 1 .. k + m : /\ E[i].place <= 2 * p
                             /\ A < E[i].place
  <2> TAKE i \in 1 .. k + m
  <2>1. CASE i \in 1 .. k
    <3>1. i > at[c]
      BY <1>6a, <2>1
    <3> QED
      BY <1>6, <1>6b, <1>8, <2>1, <3>1
  <2>2. CASE i \in k + 1 .. k + m
    <3>1. A < E[i].place
      BY <1>6, <1>9, <1>11, <2>2
    <3> DEFINE q == S[new(i)].place
               e == E[i].place
    <3>2. q \in Nat /\ e \in Nat /\ e <= q /\ q <= 2 * p
      BY <1>1, <1>6, <1>11, <2>2
    <3> HIDE DEF q, e
    <3>3. e <= 2 * p
      BY <1>1, <3>2
    <3> QED
      BY <3>1, <3>3 DEF e
  <2> QED
    BY <1>10, <2>1, <2>2
<1>18. data'[c] = E /\ stream'[c] = N /\ Len(E) = k + m /\ Len(N) = l - n
    BY <1>3 DEF E, N
<1>19. Ordered(c)'
    BY <1>12, <1>14, <1>16, <1>18, Zenon DEF Ordered
<1>20. Sensible(c)'
    BY <1>5, <1>6, <1>15, <1>17, <1>18, Zenon DEF Sensible
<1>21. Unread(c)'
  <2>1. \A i \in 1 .. k + m : i > at'[c] => A < E[i].place
    BY <1>17
  <2>2. \A i \in 1 .. l - n : Ahead(A, N[i])
    BY <1>15
  <2>3. at'[c] = 0
    BY <1>5, <1>6a
  <2> QED
    BY <1>5, <1>18, <2>1, <2>2, <2>3, Zenon DEF Unread
<1>22. Asked(c)' /\ Logged(c)'
    BY <1>4, <1>5 DEF Requested, Asked, Logged, A
<1> QED
    BY <1>19, <1>20, <1>21, <1>22 DEF Requested

(* What the server takes from its buffer was answered. *)
LEMMA ReturnKeeps ==
    ASSUME TypeInv, NEW c \in Conns, Requested(c), Return(c)
    PROVE  Requested(c)'
<1> DEFINE D == data[c]
           E == data'[c]
           b == Len(D)
           a == at[c]
           p == place[c]
           A == AnsweredTo(c)
<1>1. /\ b \in Nat /\ a \in Nat /\ a <= b
      /\ \A i \in 1 .. b : D[i].place \in Nat
    BY TextIs, AtIs
<1>2. /\ Len(E) = b - a
      /\ \A i \in 1 .. b - a : E[i] = D[a + i]
    BY ReturnIs
<1>3. /\ stream' = stream /\ hreq' = hreq /\ log' = log /\ at' = [at EXCEPT ![c] = 0]
      /\ place' = place /\ input' = [input EXCEPT ![c] = "recv"]
    BY DEF Return, textVars, Goto
<1>4. /\ place'[c] = p /\ AnsweredTo(c)' = A /\ input'[c] = "recv" /\ at'[c] = 0
    BY <1>3 DEF TypeInv, TypeOK, AnsweredTo
<1>5. /\ \A i, j \in 1 .. b : i < j => D[i].place < D[j].place
      /\ \A i \in 1 .. b, j \in 1 .. Len(stream[c]) : Ahead(D[i].place, stream[c][j])
      /\ \A i \in 1 .. b : D[i].place <= 2 * p
    BY Zenon DEF Requested, Ordered, Sensible
<1>6. \A i \in 1 .. b : i > a => A < D[i].place
    BY DEF Requested, Unread
<1> HIDE DEF D, E, b, a, p, A
<1>7. \A i \in 1 .. b - a : a + i \in 1 .. b /\ a + i > a
    BY <1>1
<1>8. \A i, j \in 1 .. b - a : i < j => E[i].place < E[j].place
  <2>1. \A i, j \in 1 .. b - a : i < j => a + i < a + j
    BY <1>1
  <2> QED
    BY <1>2, <1>5, <1>7, <2>1
<1>9. \A i \in 1 .. b - a : /\ E[i].place <= 2 * p /\ A < E[i].place
                            /\ \A j \in 1 .. Len(stream[c]) : Ahead(E[i].place, stream[c][j])
    BY <1>2, <1>5, <1>6, <1>7
<1>10. data'[c] = E /\ Len(E) = b - a /\ stream'[c] = stream[c]
    BY <1>2, <1>3 DEF E
<1>11. Ordered(c)'
  <2>1. \A i, j \in 1 .. Len(stream[c]) : i < j => Ahead(stream[c][i].place, stream[c][j])
    BY Zenon DEF Requested, Ordered
  <2> QED
    BY <1>8, <1>9, <1>10, <2>1, Zenon DEF Ordered
<1>12. Sensible(c)'
  <2>1. /\ \A i \in 1 .. Len(stream[c]) : stream[c][i].place <= 2 * p
        /\ A \in Nat /\ A <= 2 * p
    BY Zenon DEF Requested, Sensible, p, A
  <2> QED
    BY <1>4, <1>9, <1>10, <2>1, Zenon DEF Sensible
<1>13. Unread(c)'
  <2>1. \A i \in 1 .. Len(stream[c]) : Ahead(A, stream[c][i])
    BY Zenon DEF Requested, Unread, A
  <2> QED
    BY <1>4, <1>9, <1>10, <2>1, Zenon DEF Unread
<1>14. Asked(c)' /\ Logged(c)'
    BY <1>3, <1>4 DEF Requested, Asked, Logged, A
<1> QED
    BY <1>11, <1>12, <1>13, <1>14 DEF Requested

(* Cutting leaves the text in its order: what is asked next, and how far the answer
   goes, is all that can be wrong. *)
LEMMA CutKeeps ==
    ASSUME TypeInv, NEW c \in Conns, Requested(c), NEW n,
           data' = [data EXCEPT ![c] = CutTo(c, n)], stream' = stream,
           place' = place, log' = log,
           at'[c] \in Nat, at[c] <= at'[c], input'[c] \notin {"idle", "recv", "call"}
    PROVE  /\ Ordered(c)' /\ Sensible(c)' /\ Unread(c)' /\ Logged(c)'
           /\ AnsweredTo(c)' = AnsweredTo(c)
           /\ \A i \in 1 .. Len(data[c]) : data'[c][i].place = data[c][i].place
<1> DEFINE D == data[c]
           E == data'[c]
           b == Len(D)
           A == AnsweredTo(c)
<1>1. /\ Len(E) = b
      /\ \A i \in 1 .. b : E[i].place = D[i].place
  <2>1. E = CutTo(c, n)
    BY DEF TypeInv, TypeOK
  <2>2. /\ Len(CutTo(c, n)) = b
        /\ \A i \in 1 .. b : CutTo(c, n)[i].place = D[i].place
    BY CutIs, Zenon DEF TypeInv
  <2> QED
    BY <2>1, <2>2, Zenon
<1>2. AnsweredTo(c)' = A
    BY DEF AnsweredTo
<1>3. Ordered(c) /\ Sensible(c) /\ Unread(c) /\ Logged(c)
    BY DEF Requested
<1>4. b \in Nat /\ at[c] \in Nat
    BY TextIs
<1> HIDE DEF D, E, b, A
<1>5. \A i \in 1 .. b : i > at'[c] => i > at[c]
    BY <1>4
<1>6. data'[c] = E /\ Len(E) = b /\ data[c] = D /\ Len(D) = b
    BY <1>1 DEF E, D, b
<1>7. Ordered(c)'
    BY <1>1, <1>3, <1>6 DEF Ordered
<1>8. Sensible(c)'
    BY <1>1, <1>2, <1>3, <1>6 DEF Sensible, A
<1>9. Unread(c)'
    BY <1>1, <1>2, <1>3, <1>5, <1>6 DEF Unread, A
<1>10. Logged(c)'
    BY <1>2, <1>3 DEF Logged, A
<1> QED
    BY <1>1, <1>2, <1>6, <1>7, <1>8, <1>9, <1>10 DEF A

(* A field is from a line of this request, or what it was. *)
LEMMA ParsedFields ==
    ASSUME TypeInv, NEW c \in Conns, at[c] < Len(data[c]),
           NEW n \in Nat, n <= Len(data[c]), Requested(c)
    PROVE  /\ Parsed(c, n).req = data[c][at[c] + 1].place
           /\ \A f \in Fields : Parsed(c, n)[f] = 0 \/ Parsed(c, n)[f] > AnsweredTo(c)
<1> DEFINE l == Len(data[c])
           a == at[c]
           keep == PlaceOf(c, Found(c, "keep", n), hreq[c].keep)
           field == PlaceOf(c, Found(c, "field", n), hreq[c].field)
           req == data[c][a + 1].place
           qstr == IF data[c][a + 1].kind = "ask" THEN req ELSE hreq[c].qstr
<1>1. /\ TypeOK /\ a \in Nat /\ l \in Nat /\ hreq[c] \in Request
      /\ a + 1 \in 1 .. l
    BY AtIs, TextIs DEF TypeInv
<1>2. /\ \A i \in 1 .. l : i > a => AnsweredTo(c) < data[c][i].place
      /\ \A f \in Fields : hreq[c][f] = 0 \/ hreq[c][f] > AnsweredTo(c)
    BY DEF Requested, Unread, Asked
<1>3. \A kind : Found(c, kind, n) \subseteq 1 .. l /\ \A i \in Found(c, kind, n) : i > a
  <2> HIDE DEF l, a
  <2>1. n <= l
    BY DEF l
  <2>2. \A kind : Found(c, kind, n) \subseteq a + 2 .. n
    BY DEF Found, a
  <2>3. a + 2 .. n \subseteq 1 .. l /\ \A i \in a + 2 .. n : i > a
    BY <1>1, <2>1
  <2> QED
    BY <2>2, <2>3
<1>4. hreq[c].keep \in Nat /\ hreq[c].field \in Nat
    BY <1>1 DEF Request
<1>5. /\ keep = hreq[c].keep \/ \E i \in Found(c, "keep", n) : keep = data[c][i].place
      /\ field = hreq[c].field \/ \E i \in Found(c, "field", n) : field = data[c][i].place
  <2>1. Found(c, "keep", n) \subseteq 1 .. l /\ Found(c, "field", n) \subseteq 1 .. l
    BY <1>3
  <2>2. keep = hreq[c].keep \/ \E i \in Found(c, "keep", n) : keep = data[c][i].place
    BY <1>1, <1>4, <2>1, PlaceOfType
  <2>3. field = hreq[c].field \/ \E i \in Found(c, "field", n) : field = data[c][i].place
    BY <1>1, <1>4, <2>1, PlaceOfType
  <2> QED
    BY <2>2, <2>3
<1>6. Parsed(c, n) = [hreq[c] EXCEPT !.req = req, !.qstr = qstr, !.keep = keep,
                                  !.field = field]
    BY DEF Parsed
<1>7. /\ keep = 0 \/ keep > AnsweredTo(c)
      /\ field = 0 \/ field > AnsweredTo(c)
  <2>1. \A i \in Found(c, "keep", n) \cup Found(c, "field", n) : data[c][i].place > AnsweredTo(c)
    BY <1>2, <1>3
  <2>2. /\ hreq[c].keep = 0 \/ hreq[c].keep > AnsweredTo(c)
        /\ hreq[c].field = 0 \/ hreq[c].field > AnsweredTo(c)
    BY <1>2 DEF Fields
  <2> HIDE DEF keep, field
  <2> QED
    BY <1>5, <2>1, <2>2
<1>8. req > AnsweredTo(c)
  <2> HIDE DEF l, a
  <2>1. a + 1 > a
    BY <1>1
  <2> QED
    BY <1>1, <1>2, <2>1 DEF a
<1>9. hreq[c].by = 0 \/ hreq[c].by > AnsweredTo(c)
    BY <1>2 DEF Fields
<1> HIDE DEF req, qstr, keep, field
<1>10. /\ Parsed(c, n).req = req /\ Parsed(c, n).keep = keep
       /\ Parsed(c, n).field = field /\ Parsed(c, n).by = hreq[c].by
    BY <1>1, <1>6 DEF Request
<1> QED
    BY <1>7, <1>8, <1>9, <1>10 DEF Fields, req

LEMMA ReadsKeeps ==
    ASSUME TypeInv, NEW c \in Conns, Requested(c), Reads(c)
    PROVE  Requested(c)' /\ Apart(c)
<1> DEFINE l == Len(data[c])
           a == at[c]
           A == AnsweredTo(c)
<1>1. /\ TypeOK /\ a \in Nat /\ l \in Nat /\ hreq[c] \in Request
      /\ a < l => a + 1 \in 1 .. l
      /\ \A i \in 1 .. l : i > a => A < data[c][i].place
      /\ \A i, j \in 1 .. l : i < j => data[c][i].place < data[c][j].place
      /\ \A f \in Fields : hreq[c][f] = 0 \/ hreq[c][f] > A
  <2>1. /\ TypeOK /\ a \in Nat /\ l \in Nat /\ hreq[c] \in Request
        /\ a < l => a + 1 \in 1 .. l
    BY AtIs, TextIs DEF TypeInv
  <2>2. /\ \A i \in 1 .. l : i > a => A < data[c][i].place
        /\ \A f \in Fields : hreq[c][f] = 0 \/ hreq[c][f] > A
    BY DEF Requested, Unread, Asked
  <2>3. \A i, j \in 1 .. l : i < j => data[c][i].place < data[c][j].place
    BY Zenon DEF Requested, Ordered
  <2> QED
    BY <2>1, <2>2, <2>3
<1>2. ASSUME NEW n, data' = [data EXCEPT ![c] = CutTo(c, n)],
             UNCHANGED <<stream, place, log>>,
             NEW r, hreq' = [hreq EXCEPT ![c] = r],
             \A f \in Fields : r[f] = 0 \/ r[f] > A,
             NEW m \in Nat, at' = [at EXCEPT ![c] = m], a <= m,
             NEW label \in {"drop", "respond"}, input' = [input EXCEPT ![c] = label],
             label = "respond" => A < r.req /\ r.req <= data[c][m].place /\ m \in 1 .. l
      PROVE  Requested(c)' /\ Apart(c)
  <2>1. hreq'[c] = r /\ at'[c] = m /\ input'[c] = label
    BY <1>1, <1>2 DEF TypeOK
  <2>2. /\ Ordered(c)' /\ Sensible(c)' /\ Unread(c)' /\ Logged(c)'
        /\ AnsweredTo(c)' = A
        /\ \A i \in 1 .. l : data'[c][i].place = data[c][i].place
    BY <1>2, <2>1, CutKeeps
  <2>3. Asked(c)'
    BY <1>2, <2>1, <2>2 DEF Asked
  <2>4. Apart(c)
    BY <1>1, <1>2 DEF Apart, TypeOK
  <2> QED
    BY <2>2, <2>3, <2>4 DEF Requested
<1> HIDE DEF l, a, A
<1>3. CASE ParseBad(c)
  <2> DEFINE by == data[c][a + 1].place
             r == [hreq[c] EXCEPT !.code = 600, !.by = by]
  <2>1. a < l
    BY <1>3 DEF ParseBad, l, a
  <2>2. by > A
    BY <1>1, <2>1
  <2> HIDE DEF by, r
  <2>3. \A f \in Fields : r[f] = 0 \/ r[f] > A
    <3>1. r.req = hreq[c].req /\ r.keep = hreq[c].keep /\ r.field = hreq[c].field /\ r.by = by
      BY <1>1 DEF r, Request
    <3>2. \A f \in {"req", "keep", "field"} : r[f] = 0 \/ r[f] > A
      BY <1>1, <3>1 DEF Fields
    <3> QED
      BY <2>2, <3>1, <3>2 DEF Fields
  <2>4. /\ data' = [data EXCEPT ![c] = CutTo(c, a + 1)] /\ UNCHANGED <<stream, place, log, at>>
        /\ hreq' = [hreq EXCEPT ![c] = r]
        /\ input' = [input EXCEPT ![c] = "drop"]
    BY <1>3 DEF ParseBad, a, by, r, textVars, Goto
  <2>5. at' = [at EXCEPT ![c] = a] /\ a <= a
    BY <1>1, <2>4 DEF TypeOK, a
  <2> QED
    BY <1>1, <1>2, <2>3, <2>4, <2>5
<1>4. ASSUME NEW n \in DOMAIN data[c], ParseFail(c, n)
      PROVE  Requested(c)' /\ Apart(c)
  <2> DEFINE by == data[c][n].place
             q == IF n = a + 1 THEN hreq[c] ELSE Parsed(c, n - 1)
             r == [q EXCEPT !.code = 500, !.by = by]
  <2>1. n \in 1 .. l /\ n \in a + 1 .. LastLine(c)
    BY <1>4, AtIs DEF ParseFail, a, l
  <2>2. n - 1 \in Nat /\ n - 1 <= l /\ a < l /\ n > a
    <3>1. a + 1 <= n /\ n <= l /\ n \in Nat
      BY <1>1, <2>1
    <3> QED
      BY <1>1, <3>1
  <2>3. by > A
    BY <1>1, <2>1, <2>2
  <2>4. /\ Parsed(c, n - 1) \in Request
        /\ \A f \in Fields : Parsed(c, n - 1)[f] = 0 \/ Parsed(c, n - 1)[f] > A
    BY <1>1, <2>2, ParsedType, ParsedFields DEF l, a, A
  <2>5. q \in Request /\ \A f \in Fields : q[f] = 0 \/ q[f] > A
    BY <1>1, <2>4
  <2> HIDE DEF by, q, r
  <2>6. \A f \in Fields : r[f] = 0 \/ r[f] > A
    <3>1. r.req = q.req /\ r.keep = q.keep /\ r.field = q.field /\ r.by = by
      BY <2>5 DEF r, Request
    <3>2. \A f \in {"req", "keep", "field"} : r[f] = 0 \/ r[f] > A
      BY <2>5, <3>1 DEF Fields
    <3> QED
      BY <2>3, <3>1, <3>2 DEF Fields
  <2>7. /\ data' = [data EXCEPT ![c] = CutTo(c, n)] /\ UNCHANGED <<stream, place, log, at>>
        /\ hreq' = [hreq EXCEPT ![c] = r]
        /\ input' = [input EXCEPT ![c] = "drop"]
    BY <1>1, <1>4 DEF ParseFail, a, by, q, r, textVars, Goto, TypeOK
  <2>8. at' = [at EXCEPT ![c] = a] /\ a <= a
    BY <1>1, <2>7 DEF TypeOK, a
  <2> QED
    BY <1>1, <1>2, <2>6, <2>7, <2>8
<1>5. CASE Parse(c)
  <2> DEFINE m == LastLine(c)
             r == Parsed(c, m)
  <2>1. m \in a + 1 .. l /\ a < l
    BY <1>1, <1>5, LastLineIs DEF Parse, l, a
  <2> HIDE DEF m
  <2>2. m \in Nat /\ m <= l /\ a <= m /\ m \in 1 .. l /\ m >= a + 1
    BY <1>1, <2>1
  <2>3. /\ r.req = data[c][a + 1].place
        /\ \A f \in Fields : r[f] = 0 \/ r[f] > A
    BY <2>1, <2>2, ParsedFields DEF l, a, A
  <2>4. A < data[c][a + 1].place /\ data[c][a + 1].place <= data[c][m].place
    <3>1. a + 1 \in 1 .. l /\ a + 1 > a /\ (a + 1 = m \/ a + 1 < m)
      BY <1>1, <2>1, <2>2
    <3>2. data[c][m].place \in Nat /\ data[c][a + 1].place \in Nat
      BY <2>2, <3>1, TextIs DEF l
    <3>3. CASE a + 1 = m
      BY <1>1, <3>1, <3>2, <3>3
    <3>4. CASE a + 1 < m
      <4>1. data[c][a + 1].place < data[c][m].place
        BY <1>1, <2>2, <3>1, <3>4
      <4> QED
        BY <1>1, <3>1, <3>2, <4>1
    <3> QED
      BY <3>1, <3>3, <3>4
  <2>5. /\ data' = [data EXCEPT ![c] = CutTo(c, m)] /\ UNCHANGED <<stream, place, log>>
        /\ hreq' = [hreq EXCEPT ![c] = r] /\ at' = [at EXCEPT ![c] = m]
        /\ input' = [input EXCEPT ![c] = "respond"]
    BY <1>5 DEF Parse, m, textVars, Goto
  <2> HIDE DEF r
  <2> QED
    BY <1>2, <2>2, <2>3, <2>4, <2>5
<1> QED
    BY <1>3, <1>4, <1>5 DEF Reads

(* The answer covers the text up to here: what is left lies behind it, and so does
   it behind each earlier one. *)
LEMMA RespondKeeps ==
    ASSUME TypeInv, NEW c \in Conns, Requested(c),
           NEW code, NEW outcome \in {"sent", "unsent", "error"}, Respond(c, code, outcome)
    PROVE  Requested(c)' /\ Apart(c)
<1> DEFINE D == data[c]
           S == stream[c]
           a == at[c]
           A == AnsweredTo(c)
           B == D[a].place
           answer == [req |-> hreq[c].req, upto |-> B]
           n == Len(log[c])
<1>1. /\ TypeOK /\ log[c] \in Seq(Answer) /\ n \in Nat /\ a \in 1 .. Len(D)
      /\ B \in Nat /\ hreq[c].req \in Nat
      /\ \A i \in 1 .. n : log[c][i].upto \in Nat
      /\ A < hreq[c].req /\ hreq[c].req <= B
  <2>1. /\ TypeOK /\ log[c] \in Seq(Answer) /\ a \in 1 .. Len(D) /\ B \in Nat
    BY AtIs, TextIs DEF TypeInv, Respond
  <2>2. hreq[c].req \in Nat
    BY TextIs DEF Request
  <2>3. n \in Nat /\ \A i \in 1 .. n : log[c][i] \in Answer
    BY <2>1, LenProperties, ElementOfSeq
  <2>4. \A i \in 1 .. n : log[c][i].upto \in Nat
    BY <2>3 DEF Answer
  <2>5. A < hreq[c].req /\ hreq[c].req <= B
    BY DEF Requested, Asked, Respond
  <2> QED
    BY <2>1, <2>2, <2>3, <2>4, <2>5
<1>2. /\ data' = data /\ at' = at /\ place' = place /\ input' = [input EXCEPT ![c] = "parse"]
      /\ hreq' = [hreq EXCEPT ![c] = Cleaned(hreq[c])]
      /\ log' = [log EXCEPT ![c] = Append(log[c], answer)]
    BY DEF Respond, Goto
<1>3. /\ stream'[c] = S \/ stream'[c] = <<>>
      /\ \A d \in Conns \ {c} : stream'[d] = stream[d]
    BY RespondTexts
<1>4. /\ hreq'[c] = Cleaned(hreq[c]) /\ log'[c] = Append(log[c], answer) /\ input'[c] = "parse"
    BY <1>1, <1>2 DEF TypeOK
<1> DEFINE L == log'[c]
<1>5. /\ Len(L) = n + 1 /\ L \in Seq(Answer)
      /\ \A i \in 1 .. n : L[i] = log[c][i]
      /\ L[n + 1].req = hreq[c].req /\ L[n + 1].upto = B
  <2>1. answer \in Answer
    BY <1>1 DEF Answer
  <2>2. answer.req = hreq[c].req /\ answer.upto = B
    OBVIOUS
  <2> HIDE DEF answer
  <2> QED
    BY <1>1, <1>4, <2>1, <2>2, AppendProperties
<1>6. AnsweredTo(c)' = B
  <2>1. L # <<>> /\ L[Len(L)].upto = B
    <3> HIDE DEF L, n
    <3>1. Len(L) # 0
      BY <1>1, <1>5
    <3> QED
      BY <1>5, <3>1
  <2> QED
    BY <2>1 DEF AnsweredTo, Last
<1>7. Requested(c) /\ Ordered(c) /\ Sensible(c) /\ Logged(c)
    BY DEF Requested
<1> HIDE DEF D, S, A, B, L, n, a, answer
<1>8. data'[c] = D /\ data[c] = D /\ at'[c] = a /\ at[c] = a /\ place'[c] = place[c]
    BY <1>2 DEF D, a
<1>9. Len(<<>>) = 0 /\ 1 .. 0 = {}
    OBVIOUS
<1>10. Ordered(c)'
  <2>1. CASE stream'[c] = S
    BY <1>7, <1>8, <2>1 DEF Ordered, S
  <2>2. CASE stream'[c] = <<>>
    BY <1>7, <1>8, <1>9, <2>2 DEF Ordered
  <2> QED
    BY <1>3, <2>1, <2>2
<1>11. Sensible(c)'
  <2>1. B <= 2 * place[c]
    BY <1>1, <1>7 DEF Sensible, D, B
  <2>2. \A i \in 1 .. Len(stream'[c]) : stream'[c][i].place <= 2 * place[c]
    <3>1. CASE stream'[c] = S
      BY <1>7, <3>1 DEF Sensible, S
    <3>2. CASE stream'[c] = <<>>
      BY <1>9, <3>2
    <3> QED
      BY <1>3, <3>1, <3>2
  <2> QED
    BY <1>1, <1>6, <1>7, <1>8, <2>1, <2>2 DEF Sensible
<1>12. Unread(c)'
  <2>1. \A i \in 1 .. Len(D) : i > a => B < D[i].place
    BY <1>1, <1>7, <1>8 DEF Ordered, B
  <2>2. \A i \in 1 .. Len(stream'[c]) : Ahead(B, stream'[c][i])
    <3>1. CASE stream'[c] = S
      BY <1>1, <1>7, <1>8, <3>1 DEF Ordered, B, S
    <3>2. CASE stream'[c] = <<>>
      BY <1>9, <3>2
    <3> QED
      BY <1>3, <3>1, <3>2
  <2> QED
    BY <1>4, <1>6, <1>8, <2>1, <2>2 DEF Unread
<1>13. Asked(c)'
    BY <1>4 DEF Asked, Cleaned, Blank, Fields
<1>14. Logged(c)'
  <2>1. \A i \in 1 .. n : log[c][i].upto <= A
    BY <1>7 DEF Logged, n, A
  <2>2. \A i, j \in 1 .. n : i < j => log[c][i].upto < log[c][j].req
    BY <1>7 DEF Logged, n
  <2>3. A \in Nat
    BY <1>7 DEF Sensible, A
  <2>4. \A i \in 1 .. n : L[i].upto < hreq[c].req /\ L[i].upto <= B
    <3> TAKE i \in 1 .. n
    <3> DEFINE u == L[i].upto
    <3>1. u \in Nat /\ u <= A
      BY <1>1, <1>5, <2>1
    <3> HIDE DEF u
    <3>2. u < hreq[c].req /\ u <= B
      BY <1>1, <2>3, <3>1
    <3> QED
      BY <3>2 DEF u
  <2>5. \A i \in 1 .. n + 1 : i \in 1 .. n \/ i = n + 1
    BY <1>1
  <2>6. \A i \in 1 .. n + 1 : L[i].upto <= B
    BY <1>1, <1>5, <2>4, <2>5
  <2>7. \A i, j \in 1 .. n + 1 : i < j => L[i].upto < L[j].req
    <3> TAKE i, j \in 1 .. n + 1
    <3> HAVE i < j
    <3>1. i \in 1 .. n
      BY <1>1
    <3>2. CASE j \in 1 .. n
      BY <1>5, <2>2, <3>1, <3>2
    <3>3. CASE j = n + 1
      BY <1>5, <2>4, <3>1, <3>3
    <3> QED
      BY <2>5, <3>2, <3>3
  <2> QED
    BY <1>5, <1>6, <2>6, <2>7 DEF Logged, L
<1>15. Apart(c)
    BY <1>1, <1>2, <1>3 DEF Apart, TypeOK
<1> QED
    BY <1>10, <1>11, <1>12, <1>13, <1>14, <1>15 DEF Requested

(* Among the steps that handle no text, two say how much was answered: nothing, or
   all of it. *)
LEMMA QuietRequests ==
    ASSUME TypeInv, NEW c \in Conns, Requested(c), Quiet(c)
    PROVE  Requested(c)' /\ Apart(c)
<1>1. /\ UNCHANGED texts /\ TypeOK
      /\ input[c] \in {"idle", "recv", "call"} => at[c] = 0
    BY QuietTexts DEF TypeInv, Requested, Unread
<1>2. ASSUME place' = place, input' = input, at' = at PROVE Requested(c)' /\ Apart(c)
    BY <1>1, <1>2, QuietKeeps DEF Apart, texts
<1>3. ASSUME NEW label, place' = place, input' = [input EXCEPT ![c] = label],
             \/ at' = at
             \/ at' = [at EXCEPT ![c] = 0] /\ at[c] = 0
             \/ at' = [at EXCEPT ![c] = Len(data[c])],
             label # "respond",
             label \in {"idle", "recv", "call"} => at' = at /\ at[c] = 0
      PROVE  Requested(c)' /\ Apart(c)
  <2>1. input'[c] = label /\ (at'[c] = at[c] \/ at'[c] = Len(data[c]))
    BY <1>1, <1>3 DEF TypeOK
  <2>2. Requested(c)'
    BY <1>1, <1>3, <2>1, QuietKeeps
  <2>3. Apart(c)
    BY <1>1, <1>3 DEF Apart, texts, TypeOK
  <2> QED
    BY <2>2, <2>3
<1> USE DEF textVars, Goto
<1>4. CASE \/ ReadEvent(c) \/ HangUp(c) \/ Connect(c)
           \/ TimeoutCall(c) \/ Timeout(c) \/ Reset(c)
    BY <1>2, <1>4 DEF ReadEvent, HangUp, Connect, TimeoutCall, Timeout, Reset
<1>5. CASE CloseRoot(c) \/ CloseMark(c) \/ CloseDrop(c) \/ InputTest(c)
    BY <1>2, <1>5 DEF CloseRoot, CloseMark, CloseDrop, InputTest
<1>6. CASE InputLock(c)
    BY <1>1, <1>3, <1>6 DEF InputLock
<1>7. CASE ReceiveEnd(c)
    BY <1>1, <1>3, <1>7 DEF ReceiveEnd
<1>8. CASE InputRoot(c)
    BY <1>1, <1>3, <1>8 DEF InputRoot
<1>9. CASE InputCall(c)
    BY <1>1, <1>3, <1>9 DEF InputCall
<1>10. CASE InputHold(c) \/ InputFetch(c) \/ InputDrop(c) \/ ParseNone(c)
    BY <1>3, <1>10 DEF InputHold, InputFetch, InputDrop, ParseNone
<1> QED
    BY <1>4, <1>5, <1>6, <1>7, <1>8, <1>9, <1>10, Zenon DEF Quiet

LEMMA RequestsStep == RInv /\ [Next]_vars => Requests'
<1> SUFFICES ASSUME RInv, [Next]_vars PROVE Requests'
    OBVIOUS
<1>1. /\ TypeInv /\ TypeOK /\ Requests
      /\ \A c \in Conns : Requested(c)
    BY DEF RInv, IInv, TypeInv, Requests
<1>2. CASE UNCHANGED <<texts, at, place, input>>
  <2> SUFFICES ASSUME NEW c \in Conns PROVE Requested(c)'
    BY DEF Requests
  <2>1. /\ Requested(c) /\ stream' = stream /\ data' = data /\ hreq' = hreq /\ log' = log
        /\ at' = at /\ place' = place /\ input' = input
    BY <1>1, <1>2 DEF texts
  <2>2. AnsweredTo(c)' = AnsweredTo(c)
    BY <2>1 DEF AnsweredTo
  <2>3. Ordered(c)' /\ Sensible(c)'
    BY <2>1, <2>2 DEF Requested, Ordered, Sensible
  <2>4. Unread(c)' /\ Asked(c)' /\ Logged(c)'
    BY <2>1, <2>2 DEF Requested, Unread, Asked, Logged
  <2> QED
    BY <2>3, <2>4 DEF Requested
<1>3. CASE Ready \/ Free \/ UNCHANGED vars
    BY <1>2, <1>3 DEF Ready, Free, vars, texts, textVars
<1>4. ASSUME NEW c \in Conns, Quiet(c) PROVE Requests'
    BY <1>1, <1>4, QuietRequests, ApartKeep
<1>5. ASSUME NEW c \in Conns, Reads(c) PROVE Requests'
    BY <1>1, <1>5, ReadsKeeps, ApartKeep
<1>6. ASSUME NEW c \in Conns, Return(c) PROVE Requests'
  <2>1. Apart(c)
    BY <1>1, <1>6, ReturnIs DEF Return, Apart, textVars, Goto, TypeOK
  <2> QED
    BY <1>1, <1>6, <2>1, ReturnKeeps, ApartKeep
<1>7. ASSUME NEW c \in Conns, NEW seg \in Segments, Send(c, seg) PROVE Requests'
  <2>1. Apart(c)
    BY <1>1, <1>7, SendIs DEF Send, Apart, TypeOK
  <2> QED
    BY <1>1, <1>7, <2>1, SendKeeps, ApartKeep
<1>8. ASSUME NEW c \in Conns, NEW n \in 0 .. Len(stream[c]), NEW broken \in BOOLEAN,
             Receive(c, n, broken)
      PROVE  Requests'
  <2>1. /\ UNCHANGED <<hreq, log, at, place>> /\ input' = [input EXCEPT ![c] = "call"]
    BY <1>8 DEF Receive, Goto
  <2>3. \A d \in Conns \ {c} : stream'[d] = stream[d] /\ data'[d] = data[d]
    BY <1>1, <1>8, ReceiveIs
  <2>2. Apart(c)
    BY <1>1, <2>1, <2>3 DEF Apart, TypeOK
  <2> QED
    BY <1>1, <1>8, <2>2, ReceiveKeeps, ApartKeep
<1>9. ASSUME NEW c \in Conns, NEW code \in Codes,
             NEW outcome \in {"sent", "unsent", "error"}, Respond(c, code, outcome)
      PROVE  Requests'
    BY <1>1, <1>9, RespondKeeps, ApartKeep
<1> QED
    BY <1>3, <1>4, <1>5, <1>6, <1>7, <1>8, <1>9, NextIs, Zenon DEF Moves

LEMMA RequestsInit == Init => Requests
<1> SUFFICES ASSUME Init, NEW c \in Conns PROVE Requested(c)
    BY DEF Requests
<1>1. /\ data[c] = <<>> /\ stream[c] = <<>> /\ log[c] = <<>> /\ hreq[c] = Blank
      /\ at[c] = 0 /\ place[c] = 0 /\ input[c] = "idle"
    BY DEF Init, Each
<1>2. AnsweredTo(c) = 0 /\ Len(<<>>) = 0 /\ 1 .. 0 = {}
    BY <1>1 DEF AnsweredTo
<1>3. Ordered(c)
    BY <1>1, <1>2 DEF Ordered
<1>4. Sensible(c)
    BY <1>1, <1>2 DEF Sensible
<1>5. Unread(c)
    BY <1>1, <1>2 DEF Unread
<1>6. Asked(c)
    BY <1>1, <1>2 DEF Asked, Blank, Fields
<1>7. Logged(c)
    BY <1>1, <1>2 DEF Logged
<1> QED
    BY <1>3, <1>4, <1>5, <1>6, <1>7 DEF Requested

LEMMA RequestInvariant == Spec => []RInv
<1>1. Init => RInv
    BY InvInit, RequestsInit DEF RInv
<1>2. RInv /\ [Next]_vars => RInv'
    BY Inductive, RequestsStep DEF RInv
<1> QED
    BY <1>1, <1>2, PTL DEF Spec

(* Nothing that a request is made of came in before the last answer: yod_shttpd_request
   reads only what was not answered, and clean leaves nothing of it. *)
THEOREM RequestsAreFresh == Spec => []FreshRequest
<1>1. RInv => FreshRequest
    BY DEF RInv, Requests, Requested, Asked, FreshRequest
<1> QED
    BY <1>1, RequestInvariant, PTL

(* However the text is broken and joined again, a request is answered at most once,
   and the answers are in the order of the stream. *)
THEOREM RequestsAnsweredOnce == Spec => []AnsweredOnce
<1>1. RInv => AnsweredOnce
  <2> SUFFICES ASSUME RInv, NEW c \in Conns,
                      NEW i \in DOMAIN log[c], NEW j \in DOMAIN log[c], i < j
      PROVE  log[c][i].upto < log[c][j].req
    BY DEF AnsweredOnce
  <2>1. Logged(c) /\ log[c] \in Seq(Answer)
    BY DEF RInv, Requests, Requested, IInv, TypeInv, TypeOK
  <2>2. DOMAIN log[c] = 1 .. Len(log[c])
    BY <2>1, LenProperties
  <2> QED
    BY <2>1, <2>2 DEF Logged
<1> QED
    BY <1>1, RequestInvariant, PTL
=============================================================================
