--------------------------- MODULE CommandsProofs ---------------------------
(***************************************************************************)
(* Proofs about the way of a line, for every line, every nickname, every   *)
(* set of users and every size of the granule.  What a line does where it  *)
(* ends depends on what it is by then, and that is the line as it was      *)
(* meant, at every place behind the trim.                                  *)
(***************************************************************************)
EXTENDS Commands, TLAPS, WellFoundedInduction, SequenceTheorems

\* What a text is made of: the provers do not know that a literal is a string.
Symbol == STRING \union {" ", "\n", "[", "]", "say", ">", "!"}

Early == {"typed", "trimmed", "pipe", "server", "chat", "private"}

\* What the line is at each place, and what it is no more.
TextOK ==
  /\ typed \in Seq(Symbol) /\ nick \in Seq(Symbol) /\ stage \in Early \union Ends
  /\ stage = "typed" => text = typed
  /\ stage = "trimmed" => text = Append(Meant, NewLine)
  /\ stage \in {"pipe", "server"} => text = Meant
  /\ stage \in {"pipe", "server", "chat"} => Meant # <<>> /\ Head(Meant) \notin {"exit", "clear"}
  /\ stage \in {"server", "chat"} => Head(Meant) \notin {"#", "$ show blocked"}
  /\ stage = "chat" => Head(Meant) \notin {"$ show users", ">"}
  /\ stage = "private" => Meant # <<>> /\ Head(Meant) = ">" /\ ~NoName(Meant)
  /\ stage \in {"chat", "printed", "hidden"} => text = Say(nick, Meant)

-----------------------------------------------------------------------------
(* Places in a sequence.                                                   *)

\* A set of numbers has a least one, and if it is bounded a greatest one.
LEMMA LeastOf ==
  ASSUME NEW S \in SUBSET Nat, S # {}
  PROVE  Min(S) \in S /\ \A y \in S : Min(S) <= y
<1>1. PICK x \in S : \A y \in S : ~ (<<y, x>> \in OpToRel(<, Nat))
  BY WFMin, NatLessThanWellFounded
<1>2. ASSUME NEW y \in S PROVE x <= y
  <2>1. ~ (<<y, x>> \in {ss \in Nat \X Nat : ss[1] < ss[2]}) /\ <<y, x>> \in Nat \X Nat
    BY <1>1 DEF OpToRel
  <2> QED
    BY <2>1
<1> QED
  BY <1>2 DEF Min

\* What is known of the first member to be found is enough to know it.
LEMMA MinIs ==
  ASSUME NEW S \in SUBSET Int, NEW x \in S, \A y \in S : x <= y
  PROVE  Min(S) = x
<1> DEFINE z == Min(S)
<1>1. z \in S /\ \A y \in S : z <= y
  BY DEF Min
<1> HIDE DEF z
<1>2. z \in Int /\ x \in Int /\ z <= x /\ x <= z
  BY <1>1
<1>3. z = x
  BY <1>2
<1> QED
  BY <1>3 DEF z

LEMMA MaxIs ==
  ASSUME NEW S \in SUBSET Int, NEW x \in S, \A y \in S : y <= x
  PROVE  Max(S) = x
<1> DEFINE z == Max(S)
<1>1. z \in S /\ \A y \in S : z >= y
  BY DEF Max
<1> HIDE DEF z
<1>2. z \in Int /\ x \in Int /\ z <= x /\ x <= z
  BY <1>1
<1>3. z = x
  BY <1>2
<1> QED
  BY <1>3 DEF z

\* A set of places has a last one.
LEMMA MaxOf ==
  ASSUME NEW n \in Nat, NEW r \in SUBSET (1..n), r # {}
  PROVE  Max(r) \in r /\ \A y \in r : y <= Max(r)
<1> DEFINE S == {n - y : y \in r}
<1>1. S \in SUBSET Nat /\ S # {}
  OBVIOUS
<1>2. PICK x \in r : \A y \in r : n - x <= n - y
  <2>1. PICK x \in r : n - x = Min(S)
    <3> HIDE DEF S
    <3>1. Min(S) \in S
      BY <1>1, LeastOf
    <3> QED
      BY <3>1 DEF S
  <2>2. \A y \in S : Min(S) <= y
    <3> HIDE DEF S
    <3> QED
      BY <1>1, LeastOf
  <2> QED
    BY <2>1, <2>2
<1>3. \A y \in r : y <= x
  <2> SUFFICES ASSUME NEW y \in r PROVE y <= x
    OBVIOUS
  <2>1. x \in Int /\ y \in Int /\ n - x <= n - y
    BY <1>2
  <2> QED
    BY <2>1
<1>4. r \in SUBSET Int
  OBVIOUS
<1>5. Max(r) = x
  BY <1>3, <1>4, MaxIs
<1> QED
  BY <1>3, <1>5

\* A sequence by its members.
LEMMA ByMembers ==
  ASSUME NEW S, NEW s \in Seq(S)
  PROVE  /\ Len(s) \in Nat /\ DOMAIN s = 1..Len(s) /\ s = [k \in 1..Len(s) |-> s[k]]
         /\ s # <<>> <=> Len(s) # 0
         /\ \A k \in 1..Len(s) : s[k] \in S
BY EmptySeq

\* A sequence over a set is one over a larger set.
LEMMA SeqIn ==
  ASSUME NEW S, NEW T, S \subseteq T, NEW s \in Seq(S)
  PROVE  s \in Seq(T)
<1>1. Len(s) \in Nat /\ s = [k \in 1..Len(s) |-> s[k]] /\ \A k \in 1..Len(s) : s[k] \in T
  BY ByMembers
<1>2. PICK n \in Nat : n = Len(s)
  BY <1>1
<1>3. [k \in 1..n |-> s[k]] \in Seq(T)
  BY <1>1, <1>2
<1> QED
  BY <1>1, <1>2, <1>3

\* One more at the end of a sequence, and it is taken away.
LEMMA OneMore ==
  ASSUME NEW S, NEW s \in Seq(S), NEW c \in S
  PROVE  /\ Append(s, c) \in Seq(S) /\ Len(Append(s, c)) = Len(s) + 1
         /\ Append(s, c)[Len(s) + 1] = c /\ \A k \in 1..Len(s) : Append(s, c)[k] = s[k]
         /\ Front(Append(s, c)) = s
<1>1. /\ Append(s, c) \in Seq(S) /\ Len(Append(s, c)) = Len(s) + 1
      /\ Append(s, c)[Len(s) + 1] = c /\ \A k \in 1..Len(s) : Append(s, c)[k] = s[k]
  BY AppendProperties
<1>2. Front(Append(s, c)) = s
  <2>1. Len(s) \in Nat /\ (Len(s) + 1) - 1 = Len(s)
    BY LenProperties
  <2>2. SubSeq(Append(s, c), 1, Len(s)) = [k \in 1..Len(s) |-> Append(s, c)[k]]
    BY <1>1, <2>1
  <2> QED
    BY <1>1, <2>1, <2>2, ByMembers DEF Front
<1> QED
  BY <1>1, <1>2

\* The child's trim takes the blanks before the line, and no other.
LEMMA TrimMeant ==
  ASSUME typed \in Seq(Symbol)
  PROVE  Trim(Append(typed, NewLine)) = Append(Meant, NewLine) /\ Meant \in Seq(Symbol)
<1> DEFINE t == Append(typed, NewLine)
           n == Len(typed)
           chars == {k \in DOMAIN typed : typed[k] # Blank}
           I == {k \in 1..Len(t) : t[k] # Blank}
<1>1. n \in Nat /\ DOMAIN typed = 1..n
  BY ByMembers
<1>2. NewLine \in Symbol /\ NewLine # Blank
  BY DEF NewLine, Blank, Symbol
<1>3. t \in Seq(Symbol) /\ Len(t) = n + 1 /\ t[n + 1] = NewLine /\ \A k \in 1..n : t[k] = typed[k]
  <2>1. t \in Seq(Symbol) /\ Len(t) = n + 1 /\ t[n + 1] = NewLine
    BY <1>2, OneMore
  <2>2. \A k \in 1..n : t[k] = typed[k]
    BY <1>2, OneMore
  <2> QED
    BY <2>1, <2>2
<1> HIDE DEF t, n
<1>4. chars \in SUBSET (1..n) /\ I = chars \union {n + 1}
  BY <1>1, <1>2, <1>3
<1> HIDE DEF chars, I
<1>5. Max(I) = n + 1
  <2>1. I \in SUBSET Int /\ n + 1 \in I /\ \A y \in I : y <= n + 1
    BY <1>1, <1>4
  <2> QED
    BY <2>1, MaxIs
<1>6. Trim(t) = SubSeq(t, Min(I), n + 1)
  <2>1. t # <<>>
    BY <1>1, <1>3, EmptySeq
  <2>2. I # {}
    BY <1>4
  <2>3. SelectInSeq(t, LAMBDA c : c # Blank) = Min(I)
    BY <2>2 DEF SelectInSeq, I
  <2>4. SelectLastInSeq(t, LAMBDA c : c # Blank) = Max(I)
    BY <2>2 DEF SelectLastInSeq, I
  <2> QED
    BY <1>5, <2>1, <2>3, <2>4 DEF Trim
<1>7. CASE chars = {}
  <2>1. Min(I) = n + 1
    <3>1. I \in SUBSET Int /\ n + 1 \in I /\ \A y \in I : n + 1 <= y
      BY <1>1, <1>4, <1>7
    <3> QED
      BY <3>1, MinIs
  <2>2. SubSeq(t, n + 1, n + 1) = <<NewLine>>
    <3>1. n + 1 \in Int /\ (n + 1) - (n + 1) + 1 = 1 /\ n + 1 + 1 - 1 = n + 1 /\ n + 1 <= n + 1
      BY <1>1
    <3>2. \A k \in n + 1..n + 1 : t[k] \in Symbol
      BY <1>1, <1>2, <1>3
    <3>3. /\ SubSeq(t, n + 1, n + 1) \in Seq(Symbol) /\ Len(SubSeq(t, n + 1, n + 1)) = 1
          /\ SubSeq(t, n + 1, n + 1)[1] = NewLine
      BY <1>3, <3>1, <3>2, SubSeqProperties
    <3>4. <<NewLine>> \in Seq(Symbol) /\ Len(<<NewLine>>) = 1 /\ <<NewLine>>[1] = NewLine
      BY <1>2
    <3>5. \A k \in 1..1 : SubSeq(t, n + 1, n + 1)[k] = <<NewLine>>[k]
      <4>1. \A k \in 1..1 : k = 1
        OBVIOUS
      <4> QED
        BY <3>3, <3>4, <4>1
    <3> QED
      BY <3>3, <3>4, <3>5, SeqEqual
  <2>3. Meant = <<>>
    BY <1>7 DEF Meant, chars
  <2>4. Append(<<>>, NewLine) = <<NewLine>> /\ <<>> \in Seq(Symbol)
    OBVIOUS
  <2> QED
    BY <1>6, <2>1, <2>2, <2>3, <2>4 DEF t
<1>8. CASE chars # {}
  <2>1. PICK m \in 1..n : m = Min(chars) /\ m \in chars /\ \A y \in chars : m <= y
    <3>1. chars \in SUBSET Nat
      BY <1>1, <1>4
    <3>2. Min(chars) \in chars /\ \A y \in chars : Min(chars) <= y
      BY <1>8, <3>1, LeastOf
    <3> QED
      BY <1>4, <3>2
  <2>2. Min(I) = m
    <3>1. I \in SUBSET Int /\ m \in I /\ \A y \in I : m <= y
      BY <1>1, <1>4, <2>1
    <3> QED
      BY <3>1, MinIs
  <2>3. Meant = SubSeq(typed, m, n)
    BY <1>8, <2>1 DEF Meant, n, chars
  <2> DEFINE l == n - m + 1
  <2>4. l \in Nat /\ m \in Int /\ n \in Int /\ m <= n
    BY <1>1
  <2>5. \A k \in m..n : typed[k] \in Symbol
    BY <1>1, ByMembers DEF n
  <2>6. Meant \in Seq(Symbol) /\ Len(Meant) = l /\ \A k \in 1..l : Meant[k] = typed[m + k - 1]
    BY <2>3, <2>4, <2>5, SubSeqProperties
  <2>7. \A k \in m..n + 1 : t[k] \in Symbol
    <3>1. \A k \in m..n + 1 : k \in 1..Len(t)
      BY <1>1, <1>3
    <3> QED
      BY <1>3, <3>1, ByMembers
  <2>8. /\ SubSeq(t, m, n + 1) \in Seq(Symbol) /\ Len(SubSeq(t, m, n + 1)) = l + 1
        /\ \A k \in 1..l + 1 : SubSeq(t, m, n + 1)[k] = t[m + k - 1]
    <3>1. n + 1 \in Int /\ m <= n + 1 /\ (n + 1) - m + 1 = l + 1
      BY <1>1, <2>4
    <3> QED
      BY <2>4, <2>7, <3>1, SubSeqProperties
  <2>9. /\ Append(Meant, NewLine) \in Seq(Symbol) /\ Len(Append(Meant, NewLine)) = l + 1
        /\ Append(Meant, NewLine)[l + 1] = NewLine
        /\ \A k \in 1..l : Append(Meant, NewLine)[k] = Meant[k]
    BY SMTT(30), <1>2, <2>6, OneMore
  <2>10. ASSUME NEW k \in 1..l + 1
         PROVE  Append(Meant, NewLine)[k] = t[m + k - 1]
    <3>1. CASE k \in 1..l
      <4>1. m + k - 1 \in 1..n
        BY <1>1, <3>1
      <4> QED
        BY <1>3, <2>6, <2>9, <3>1, <4>1
    <3>2. CASE k = l + 1
      <4>1. m + k - 1 = n + 1
        BY <1>1, <3>2
      <4> QED
        BY <1>3, <2>9, <3>2, <4>1
    <3>3. k \in 1..l \/ k = l + 1
      BY <2>4
    <3> QED
      BY <3>1, <3>2, <3>3
  <2>11. SubSeq(t, m, n + 1) = Append(Meant, NewLine)
    BY <2>8, <2>9, <2>10, SeqEqual
  <2> QED
    BY <1>6, <2>2, <2>6, <2>11 DEF t
<1> QED
  BY <1>7, <1>8

-----------------------------------------------------------------------------
(* The way of a line.                                                      *)

\* The first symbol of a line is that of the line with its end.
LEMMA HeadMeant ==
  ASSUME NEW s \in Seq(Symbol)
  PROVE  /\ Head(Append(s, NewLine)) = IF s = <<>> THEN NewLine ELSE Head(s)
         /\ Front(Append(s, NewLine)) = s
         /\ Append(s, NewLine) = <<NewLine>> <=> s = <<>>
<1>1. NewLine \in Symbol
  BY DEF NewLine, Symbol
<1>2. Head(Append(s, NewLine)) = IF s = <<>> THEN NewLine ELSE Head(s)
  BY HeadTailAppend
<1>3. Front(Append(s, NewLine)) = s
  BY <1>1, OneMore
<1>4. Front(<<NewLine>>) = <<>>
  <2>1. <<>> \in Seq(Symbol) /\ Append(<<>>, NewLine) = <<NewLine>>
    OBVIOUS
  <2> QED
    BY <1>1, <2>1, OneMore
<1>5. s = <<>> => Append(s, NewLine) = <<NewLine>>
  OBVIOUS
<1> QED
  BY <1>2, <1>3, <1>4, <1>5

\* trim dies of a name that is blanks alone: the line has one stretch of blanks, behind its
\* first symbol or at its end.
LEMMA NamelessIs ==
  ASSUME NEW s \in Seq(Symbol), s # <<>>, Head(s) = ">"
  PROVE  TrimDies(NameOf(s)) <=> NoName(s)
<1>1. PICK n \in Nat \ {0} : n = Len(s) /\ DOMAIN s = 1..n /\ s[1] # Blank
  <2>1. Len(s) \in Nat /\ Len(s) # 0 /\ DOMAIN s = 1..Len(s) /\ s[1] = Head(s)
    BY ByMembers
  <2> QED
    BY <2>1 DEF Blank
<1>2. CASE Blank \notin Range(s)
  <2>1. NameOf(s) = s
    BY <1>2 DEF NameOf
  <2>2. ~TrimDies(s)
    BY <1>2 DEF TrimDies
  <2>3. \A i \in DOMAIN s : s[i] # Blank
    BY <1>2 DEF Range
  <2>4. ~NoName(s)
    <3>1. ASSUME NEW a \in DOMAIN s, NEW b \in DOMAIN s, a < b
          PROVE  a \in a..b
      BY <1>1, <3>1
    <3> QED
      BY <2>3, <3>1 DEF NoName
  <2> QED
    BY <2>1, <2>2, <2>4
<1>3. CASE Blank \in Range(s)
  <2> DEFINE I == {k \in 1..Len(s) : s[k] = Blank}
  <2>1. PICK q \in 1..n : s[q] = Blank
    BY <1>1, <1>3 DEF Range
  <2>2. I \in SUBSET (1..n) /\ I # {} /\ \A i \in 1..n : i \in I <=> s[i] = Blank
    BY <1>1, <2>1
  <2>3. SelectInSeq(s, LAMBDA c : c = Blank) = Min(I) /\ SelectLastInSeq(s, LAMBDA c : c = Blank) = Max(I)
    BY <2>2 DEF SelectInSeq, SelectLastInSeq
  <2> HIDE DEF I
  <2>4. PICK first \in I : first = Min(I) /\ \A y \in I : first <= y
    <3>1. I \in SUBSET Nat
      BY <2>2
    <3> QED
      BY <2>2, <3>1, LeastOf
  <2>5. PICK last \in I : last = Max(I) /\ \A y \in I : y <= last
    BY <2>2, MaxOf
  <2>6. /\ first \in 2..n /\ last \in 2..n /\ first <= last
        /\ s[first] = Blank /\ s[last] = Blank
    <3>1. first \in 1..n /\ last \in 1..n /\ first # 1 /\ last # 1 /\ first <= last
      BY <1>1, <2>2, <2>4, <2>5
    <3> QED
      BY <2>2, <3>1
  <2>7. PICK e \in Int : e = Min({first + (last - 2), n}) /\ e \in {first + (last - 2), n}
                        /\ e <= first + (last - 2) /\ e <= n
    <3> DEFINE S == {first + (last - 2), n}
    <3>1. S \in SUBSET Nat /\ S # {}
      BY <2>6
    <3> HIDE DEF S
    <3>2. Min(S) \in S /\ \A y \in S : Min(S) <= y
      BY <3>1, LeastOf
    <3>3. PICK m : m = Min(S)
      OBVIOUS
    <3> QED
      BY <1>1, <2>6, <3>2, <3>3 DEF S
  <2>8. PICK name : name = SubSeq(s, first + 1, e)
    OBVIOUS
  <2>9. NameOf(s) = name
    <3>1. FirstBlank(s) = first - 1 /\ LastBlank(s) = last - 1
      BY <2>3, <2>4, <2>5 DEF FirstBlank, LastBlank
    <3>2. first - 1 + 1 = first /\ last - 1 - 1 = last - 2
      BY <2>6
    <3>3. NameOf(s) = Substr(s, first, last - 2)
      BY <1>3, <3>1, <3>2 DEF NameOf
    <3> QED
      BY <1>1, <2>7, <2>8, <3>3 DEF Substr
  <2>10. /\ name \in Seq(Symbol) /\ Len(name) = (IF first + 1 <= e THEN e - first ELSE 0)
         /\ \A k \in 1..e - first : name[k] = s[first + k]
    <3>1. \A k \in first + 1..e : s[k] \in Symbol
      <4>1. \A k \in first + 1..e : k \in 1..n
        BY <2>6, <2>7
      <4> QED
        BY <1>1, <4>1, ByMembers
    <3>2. /\ name \in Seq(Symbol)
          /\ Len(name) = IF first + 1 <= e THEN e - (first + 1) + 1 ELSE 0
          /\ \A k \in 1..e - (first + 1) + 1 : name[k] = s[first + 1 + k - 1]
      <4>1. PICK f \in Int : f = first + 1
        BY <2>6
      <4>2. \A k \in f..e : s[k] \in Symbol
        BY <3>1, <4>1
      <4>3. e \in Int
        BY <2>7
      <4>4. PICK g : g = SubSeq(s, f, e)
        OBVIOUS
      <4>5. /\ g \in Seq(Symbol) /\ Len(g) = IF f <= e THEN e - f + 1 ELSE 0
            /\ \A k \in 1..e - f + 1 : g[k] = s[f + k - 1]
        BY <4>2, <4>3, <4>4, SubSeqProperties
      <4>6. name = g
        BY <2>8, <4>1, <4>4
      <4> QED
        BY <4>1, <4>5, <4>6
    <3>3. e - (first + 1) + 1 = e - first /\ \A k \in 1..e - first : first + 1 + k - 1 = first + k
      BY <2>6, <2>7
    <3> QED
      BY <3>2, <3>3
  <2>11. TrimDies(name) <=> first + 1 <= e /\ \A k \in first + 1..e : s[k] = Blank
    <3>1. Len(name) \in Nat /\ DOMAIN name = 1..Len(name) /\ (name # <<>> <=> Len(name) # 0)
      BY <2>10, ByMembers
    <3>2. name # <<>> <=> first + 1 <= e
      BY <2>6, <2>7, <2>10, <3>1
    <3>3. CASE first + 1 <= e
      <4>1. DOMAIN name = 1..e - first /\ 1 \in DOMAIN name
        BY <2>6, <2>7, <2>10, <3>1, <3>3
      <4>2. Range(name) = {Blank} <=> \A k \in 1..e - first : name[k] = Blank
        <5>1. PICK D : D = 1..e - first
          OBVIOUS
        <5>2. Range(name) = {name[k] : k \in D} /\ 1 \in D
          BY <4>1, <5>1 DEF Range
        <5>3. {name[k] : k \in D} = {Blank} <=> \A k \in D : name[k] = Blank
          BY <5>2
        <5> QED
          BY <5>1, <5>2, <5>3
      <4>3. (\A k \in 1..e - first : name[k] = Blank) <=> \A k \in 1..e - first : s[first + k] = Blank
        BY <2>10
      <4>4. /\ \A k \in 1..e - first : first + k \in first + 1..e
            /\ \A k \in first + 1..e : k - first \in 1..e - first /\ first + (k - first) = k
        <5>1. PICK f \in Int : f = first
          BY <2>6
        <5>2. /\ \A k \in 1..e - f : f + k \in f + 1..e
              /\ \A k \in f + 1..e : k - f \in 1..e - f /\ f + (k - f) = k
          <6>1. e \in Int
            BY <2>7
          <6> QED
            BY <5>1, <6>1
        <5> QED
          BY <5>1, <5>2
      <4>5. (\A k \in 1..e - first : s[first + k] = Blank) <=> \A k \in first + 1..e : s[k] = Blank
        BY <4>4
      <4> QED
        BY <3>2, <3>3, <4>2, <4>3, <4>5 DEF TrimDies
    <3> QED
      BY <3>2, <3>3 DEF TrimDies
  <2>12. ASSUME first + 1 <= e, \A k \in first + 1..e : s[k] = Blank
         PROVE  NoName(s)
    <3>1. e \in I
      <4>1. e \in 1..n /\ e \in first + 1..e
        BY <2>6, <2>7, <2>12
      <4> QED
        BY <2>2, <2>12, <4>1
    <3>2. e <= last
      BY <2>5, <3>1
    <3>3. e = last /\ first < last /\ (first = 2 \/ last = n)
      BY <2>6, <2>7, <2>12, <3>2
    <3>4. ASSUME NEW i \in 1..n
          PROVE  s[i] = Blank <=> i \in first..last
      <4>1. i \in I => i \in first..last
        BY <2>4, <2>5, <2>6, <3>4
      <4>2. i \in first..last => i = first \/ i \in first + 1..e
        BY <2>6, <3>3
      <4> QED
        BY <2>2, <2>6, <2>12, <4>1, <4>2
    <3>5. first \in DOMAIN s /\ last \in DOMAIN s /\ DOMAIN s = 1..n /\ n = Len(s)
      BY <1>1, <2>6
    <3>6. \A i \in DOMAIN s : s[i] = Blank <=> i \in first..last
      BY <3>4, <3>5
    <3> QED
      BY <3>3, <3>5, <3>6, ZenonT(60) DEF NoName
  <2>13. ASSUME NEW a \in 1..n, NEW b \in 1..n, a < b, a = 2 \/ b = n,
                \A i \in 1..n : s[i] = Blank <=> i \in a..b
         PROVE  first + 1 <= e /\ \A k \in first + 1..e : s[k] = Blank
    <3>1. a \in a..b /\ b \in a..b
      BY <2>13
    <3>2. a \in I /\ b \in I
      BY <2>2, <2>13, <3>1
    <3>3. first \in a..b /\ last \in a..b
      BY <2>2, <2>6, <2>13
    <3>4. first = a /\ last = b
      BY <2>4, <2>5, <3>2, <3>3
    <3>5. first + 1 <= e /\ e <= last
      BY <2>6, <2>7, <2>13, <3>4
    <3>6. \A k \in first + 1..e : k \in 1..n /\ k \in a..b
      BY <2>6, <2>7, <3>4, <3>5
    <3> QED
      BY <2>13, <3>5, <3>6
  <2> QED
    BY <1>1, <2>9, <2>11, <2>12, <2>13 DEF NoName
<1> QED
  BY <1>2, <1>3

LEMMA TextInit ==
  ASSUME Init
  PROVE  TextOK
<1>1. typed \in Seq(Symbol) /\ nick \in Seq(Symbol)
  <2>1. STRING \subseteq Symbol
    BY DEF Symbol
  <2>2. \A s \in Seq(STRING) : s \in Seq(Symbol)
    BY <2>1, SeqIn
  <2> QED
    BY <2>2, CommandsAssumption DEF Init
<1> QED
  BY <1>1 DEF Init, TextOK, Early, Ends

\* While the line is typed the same, it means the same.
LEMMA MeantStays ==
  ASSUME UNCHANGED typed
  PROVE  Meant' = Meant /\ (NoName(Meant)' <=> NoName(Meant))
BY DEF Meant, NoName

LEMMA TextStep ==
  ASSUME TextOK, [Next]_vars
  PROVE  TextOK'
<1>1. typed \in Seq(Symbol) /\ nick \in Seq(Symbol) /\ Meant \in Seq(Symbol)
      /\ Trim(Append(typed, NewLine)) = Append(Meant, NewLine)
  BY TrimMeant DEF TextOK
<1>2. CASE ChildTrim
  <2>1. text' = Append(Meant, NewLine) /\ stage' = "trimmed" /\ UNCHANGED <<typed, nick>>
    BY <1>1, <1>2 DEF ChildTrim, Goto, TextOK
  <2> QED
    BY <1>1, <2>1, MeantStays DEF TextOK, Early
<1>3. CASE ChildRoute
  <2>1. text = Append(Meant, NewLine) /\ stage = "trimmed" /\ UNCHANGED <<typed, nick>>
    BY <1>3 DEF ChildRoute, Goto, TextOK
  <2>2. text' = Meant /\ (text = <<NewLine>> <=> Meant = <<>>)
        /\ Head(text) = IF Meant = <<>> THEN NewLine ELSE Head(Meant)
    BY <1>1, <1>3, <2>1, HeadMeant DEF ChildRoute, Written
  <2>3. \/ stage' \in {"left", "cleared", "nothing"}
        \/ stage' = "pipe" /\ Meant # <<>> /\ Head(Meant) \notin {"exit", "clear"}
    BY <1>3, <2>2 DEF ChildRoute, Goto
  <2> QED
    BY <1>1, <2>1, <2>2, <2>3, MeantStays DEF TextOK, Early, Ends
<1>4. CASE ParentRoute
  <2>1. stage = "pipe" /\ text = Meant /\ UNCHANGED <<typed, nick, text>>
        /\ Meant # <<>> /\ Head(Meant) \notin {"exit", "clear"}
    BY <1>4 DEF ParentRoute, Goto, TextOK
  <2>2. \/ stage' \in {"blocked", "listed"}
        \/ stage' = "server" /\ Head(Meant) \notin {"#", "$ show blocked"}
    BY <1>4, <2>1 DEF ParentRoute, Goto
  <2> QED
    BY <1>1, <2>1, <2>2, MeantStays DEF TextOK, Early, Ends
<1>5. CASE ServerRoute
  <2>1. stage = "server" /\ text = Meant /\ UNCHANGED <<typed, nick>>
        /\ Meant # <<>> /\ Head(Meant) \notin {"exit", "clear", "#", "$ show blocked"}
    BY <1>5 DEF ServerRoute, Private, Goto, TextOK
  <2>2. \/ stage' \in {"users", "unsent", "killed"}
        \/ stage' = "private" /\ Head(Meant) = ">" /\ ~TrimDies(NameOf(Meant))
        \/ stage' = "chat" /\ Head(Meant) \notin {"$ show users", ">"} /\ text' = Say(nick, Meant)
    BY <1>5, <2>1 DEF ServerRoute, Private, Goto
  <2>3. Say(nick, Meant)' = Say(nick, Meant)
    BY <2>1, MeantStays DEF Say
  <2>4. Head(Meant) = ">" => (TrimDies(NameOf(Meant)) <=> NoName(Meant))
    BY <1>1, <2>1, NamelessIs
  <2> QED
    BY <1>1, <2>1, <2>2, <2>3, <2>4, MeantStays DEF TextOK, Early, Ends
<1>8. CASE ShowPrivate
  <2>1. stage = "private" /\ UNCHANGED <<typed, nick, text>> /\ stage' \in {"withheld", "shown"}
    BY <1>8 DEF ShowPrivate, Goto
  <2> QED
    BY <1>1, <2>1 DEF TextOK, Early, Ends
<1>6. CASE ShowChat
  <2>1. stage = "chat" /\ UNCHANGED <<typed, nick, text>> /\ stage' \in {"hidden", "printed"}
        /\ text = Say(nick, Meant)
    BY <1>6 DEF ShowChat, Goto, TextOK
  <2>2. Say(nick, Meant)' = Say(nick, Meant)
    BY <2>1, MeantStays DEF Say
  <2> QED
    BY <1>1, <2>1, <2>2 DEF TextOK, Early, Ends
<1>7. CASE UNCHANGED vars
  <2>1. Say(nick, Meant)' = Say(nick, Meant) /\ Meant' = Meant /\ (NoName(Meant)' <=> NoName(Meant))
    BY <1>7, MeantStays DEF Say, vars
  <2> QED
    BY <1>7, <2>1 DEF TextOK, vars
<1> QED
  BY <1>2, <1>3, <1>4, <1>5, <1>6, <1>7, <1>8 DEF Next

\* Where a line ends is decided by its first symbol.
LEMMA RouteStep ==
  ASSUME TextOK, RouteByFirst, [Next]_vars
  PROVE  RouteByFirst'
<1>1. CASE UNCHANGED vars
  <2>1. Meant' = Meant /\ (NoName(Meant)' <=> NoName(Meant))
    BY <1>1, MeantStays DEF vars
  <2> QED
    BY <1>1, <2>1 DEF RouteByFirst, vars
<1>2. CASE ChildTrim
  BY <1>2 DEF ChildTrim, Goto, RouteByFirst, Ends
<1>3. CASE ChildRoute
  <2>1. stage = "trimmed" /\ text = Append(Meant, NewLine) /\ Meant' = Meant
    BY <1>3, MeantStays DEF ChildRoute, Goto, TextOK
  <2>2. (text = <<NewLine>> <=> Meant = <<>>)
        /\ Head(text) = IF Meant = <<>> THEN NewLine ELSE Head(Meant)
    BY <2>1, TrimMeant, HeadMeant DEF TextOK
  <2>3. NewLine # "exit" /\ NewLine # "clear"
    BY DEF NewLine
  <2>4. stage' = CASE Head(text) = "exit"  -> "left"
                   [] Head(text) = "clear" -> "cleared"
                   [] text = <<NewLine>>   -> "nothing"
                   [] OTHER                -> "pipe"
    BY <1>3 DEF ChildRoute, Goto
  <2>5. CASE Meant = <<>>
    <3>1. stage' = "nothing"
      BY <2>2, <2>3, <2>4, <2>5
    <3> QED
      BY <2>1, <2>5, <3>1 DEF RouteByFirst
  <2>6. CASE Meant # <<>>
    <3>1. stage' = CASE Head(Meant) = "exit"  -> "left"
                     [] Head(Meant) = "clear" -> "cleared"
                     [] OTHER                 -> "pipe"
      BY <2>2, <2>4, <2>6
    <3> QED
      BY <2>1, <2>6, <3>1 DEF RouteByFirst, Ends
  <2> QED
    BY <2>5, <2>6
<1>4. CASE ParentRoute
  <2>1. /\ stage = "pipe" /\ text = Meant /\ Meant' = Meant /\ Meant # <<>>
        /\ Head(Meant) \notin {"exit", "clear"}
    BY <1>4, MeantStays DEF ParentRoute, Goto, TextOK
  <2>2. stage' = CASE Head(Meant) = "#" -> "blocked"
                   [] Head(Meant) = "$ show blocked" -> "listed"
                   [] OTHER -> "server"
    BY <1>4, <2>1 DEF ParentRoute, Goto
  <2> QED
    BY <2>1, <2>2 DEF RouteByFirst, Ends
<1>5. CASE ServerRoute
  <2>1. /\ stage = "server" /\ text = Meant /\ Meant' = Meant /\ Meant # <<>>
        /\ Head(Meant) \notin {"exit", "clear", "#", "$ show blocked"}
    BY <1>5, MeantStays DEF ServerRoute, Private, Goto, TextOK
  <2>2. \/ stage' = "users" /\ Head(Meant) = "$ show users"
        \/ stage' = "killed" /\ Head(Meant) = ">" /\ TrimDies(NameOf(Meant))
        \/ stage' = "unsent" /\ Head(Meant) = ">" /\ ~TrimDies(NameOf(Meant))
        \/ stage' \in {"chat", "private"}
    BY <1>5, <2>1 DEF ServerRoute, Private, Goto
  <2>3. Head(Meant) = ">" => (TrimDies(NameOf(Meant)) <=> NoName(Meant))
    <3>1. Meant \in Seq(Symbol)
      BY TrimMeant DEF TextOK
    <3> QED
      BY <2>1, <3>1, NamelessIs
  <2>4. NoName(Meant)' <=> NoName(Meant)
    BY <1>5, MeantStays DEF ServerRoute, Private, Goto
  <2> QED
    BY <2>1, <2>2, <2>3, <2>4 DEF RouteByFirst, Ends
<1>6. CASE ShowChat
  <2>1. /\ stage = "chat" /\ stage' \in {"hidden", "printed"} /\ Meant' = Meant /\ Meant # <<>>
        /\ Head(Meant) \notin {"exit", "clear", "#", "$ show blocked", "$ show users", ">"}
    BY <1>6, MeantStays DEF ShowChat, Goto, TextOK
  <2> QED
    BY <2>1 DEF RouteByFirst, Ends
<1>7. CASE ShowPrivate
  <2>1. /\ stage' \in {"withheld", "shown"} /\ Meant' = Meant /\ Meant # <<>> /\ Head(Meant) = ">"
        /\ ~NoName(Meant)'
    BY <1>7, MeantStays DEF ShowPrivate, Goto, TextOK
  <2> QED
    BY <2>1 DEF RouteByFirst, Ends
<1> QED
  BY <1>1, <1>2, <1>3, <1>4, <1>5, <1>6, <1>7 DEF Next

\* Where something is found first.
LEMMA PlaceIs ==
  ASSUME NEW t \in Seq(Symbol), NEW c, NEW k \in 1..Len(t), t[k] = c,
         \A y \in 1..Len(t) : t[y] = c => k <= y
  PROVE  Place(c, t) = k /\ c \in Range(t)
<1> DEFINE I == {y \in 1..Len(t) : t[y] = c}
<1>1. k \in I /\ I \in SUBSET Int /\ \A y \in I : k <= y
  OBVIOUS
<1>2. Place(c, t) = Min(I)
  BY <1>1 DEF Place, SelectInSeq
<1> HIDE DEF I
<1>3. Min(I) = k
  BY <1>1, MinIs
<1>4. k \in DOMAIN t
  BY ByMembers
<1> QED
  BY <1>2, <1>3, <1>4 DEF Range

\* A line is sent with its sender's name in brackets, and that is what is cut out of it.
LEMMA CutSay ==
  ASSUME NEW n \in Seq(Symbol), NEW s \in Seq(Symbol), "]" \notin Range(n)
  PROVE  /\ Place("[", Say(n, s)) = 1 /\ "]" \in Range(Say(n, s))
         /\ CutName(Say(n, s)) = n
<1> DEFINE l == Len(n)
           t == Say(n, s)
           I == {k \in 1..Len(t) : t[k] = "]"}
<1>1. l \in Nat /\ DOMAIN n = 1..l /\ Len(s) \in Nat
  BY ByMembers
<1>2. /\ t \in Seq(Symbol) /\ Len(t) = l + 3 + Len(s) /\ t[1] = "[" /\ t[l + 2] = "]"
      /\ \A k \in 1..l : t[k + 1] = n[k]
  <2>1. /\ <<"[">> \in Seq(Symbol) /\ Len(<<"[">>) = 1 /\ <<"[">>[1] = "["
        /\ <<"]", "say">> \in Seq(Symbol) /\ Len(<<"]", "say">>) = 2 /\ <<"]", "say">>[1] = "]"
    <3>1. "[" \in Symbol /\ "]" \in Symbol /\ "say" \in Symbol
      BY DEF Symbol
    <3> HIDE DEF Symbol
    <3>2. <<"[">> \in Seq(Symbol) /\ Len(<<"[">>) = 1 /\ <<"[">>[1] = "["
      BY <3>1
    <3>3. <<"]", "say">> \in Seq(Symbol)
      BY <3>1
    <3>4. Len(<<"]", "say">>) = 2 /\ <<"]", "say">>[1] = "]"
      OBVIOUS
    <3> QED
      BY <3>2, <3>3, <3>4
  <2>2. PICK a \in Seq(Symbol) : a = <<"[">> \o n
    BY <2>1, ConcatProperties
  <2>3. Len(a) = l + 1 /\ a[1] = "[" /\ \A k \in 1..l : a[k + 1] = n[k]
    <3>1. Len(a) = 1 + l
      BY <2>1, <2>2, ConcatProperties
    <3>2. \A i \in 1..1 + l : a[i] = IF i <= 1 THEN <<"[">>[i] ELSE n[i - 1]
      BY <2>1, <2>2, ConcatProperties
    <3>3. 1 \in 1..1 + l /\ 1 <= 1
      BY <1>1
    <3>4. \A k \in 1..l : k + 1 \in 1..1 + l /\ ~(k + 1 <= 1) /\ k + 1 - 1 = k
      BY <1>1
    <3> HIDE DEF l
    <3> QED
      BY <1>1, <2>1, <3>1, <3>2, <3>3, <3>4
  <2>4. PICK b \in Seq(Symbol) : b = a \o <<"]", "say">>
    BY <2>1, ConcatProperties
  <2>5. Len(b) = l + 3 /\ b[l + 2] = "]" /\ \A i \in 1..l + 1 : b[i] = a[i]
    <3>1. Len(b) = l + 1 + 2
      BY <2>1, <2>3, <2>4, ConcatProperties
    <3>2. \A i \in 1..l + 1 + 2 : b[i] = IF i <= l + 1 THEN a[i] ELSE <<"]", "say">>[i - (l + 1)]
      BY <2>1, <2>3, <2>4, ConcatProperties
    <3>3. l + 2 \in 1..l + 1 + 2 /\ ~(l + 2 <= l + 1) /\ l + 2 - (l + 1) = 1
      BY <1>1
    <3>4. \A i \in 1..l + 1 : i \in 1..l + 1 + 2 /\ i <= l + 1
      BY <1>1
    <3> HIDE DEF l
    <3> QED
      BY <1>1, <2>1, <3>1, <3>2, <3>3, <3>4
  <2>6. t = b \o s
    BY <2>2, <2>4 DEF Say
  <2>7. t \in Seq(Symbol) /\ Len(t) = l + 3 + Len(s)
    <3> HIDE DEF t, l
    <3>1. t \in Seq(Symbol) /\ Len(t) = Len(b) + Len(s)
      BY <2>6, ConcatProperties
    <3> QED
      BY <2>5, <3>1
  <2>8. \A i \in 1..l + 3 + Len(s) : t[i] = IF i <= l + 3 THEN b[i] ELSE s[i - (l + 3)]
    BY <2>5, <2>6, ConcatProperties
  <2>9. \A i \in 1..l + 3 : i \in 1..l + 3 + Len(s) /\ i <= l + 3
    BY <1>1
  <2>10. /\ 1 \in 1..l + 3 /\ l + 2 \in 1..l + 3 /\ 1 \in 1..l + 1
         /\ \A k \in 1..l : k + 1 \in 1..l + 3 /\ k + 1 \in 1..l + 1
    BY <1>1
  <2> HIDE DEF l, t
  <2>11. \A i \in 1..l + 3 : t[i] = b[i]
    BY <2>8, <2>9
  <2> QED
    BY <2>3, <2>5, <2>7, <2>10, <2>11
<1> HIDE DEF t
<1>3. l + 2 \in I /\ I \in SUBSET Int /\ \A y \in I : l + 2 <= y
  <2>1. l + 2 \in 1..Len(t)
    BY <1>1, <1>2
  <2>2. ASSUME NEW y \in 1..Len(t), y < l + 2
        PROVE  t[y] # "]"
    <3>1. CASE y = 1
      BY <1>2, <3>1
    <3>2. CASE y # 1
      <4>1. y - 1 \in 1..l /\ (y - 1) + 1 = y
        BY <1>1, <2>2, <3>2
      <4>2. t[y] = n[y - 1]
        BY <1>2, <4>1
      <4> QED
        BY <1>1, <4>1, <4>2 DEF Range
    <3> QED
      BY <3>1, <3>2
  <2>3. \A y \in I : y \in Int /\ ~(y < l + 2)
    BY <2>2
  <2>4. l + 2 \in Int
    BY <1>1
  <2>5. \A y \in I : l + 2 <= y
    BY <2>3, <2>4
  <2> QED
    BY <1>2, <2>1, <2>3, <2>5
<1>4. Place("]", t) = l + 2 /\ "]" \in Range(t)
  <2>1. l + 2 \in 1..Len(t)
    BY <1>3
  <2>2. \A y \in 1..Len(t) : t[y] = "]" => l + 2 <= y
    BY <1>3
  <2> HIDE DEF l, I
  <2> QED
    BY <1>2, <2>1, <2>2, PlaceIs
<1>7. Place("[", t) = 1
  <2>1. 1 \in 1..Len(t) /\ \A y \in 1..Len(t) : 1 <= y
    BY <1>1, <1>2
  <2> HIDE DEF l, I
  <2> QED
    BY <1>2, <2>1, PlaceIs
<1>5. CutName(t) = SubSeq(t, 2, l + 1)
  <2>1. l + 2 - 2 = l /\ 1 + l \in Int /\ 1 + l <= Len(t) /\ Len(t) \in Int /\ l + 2 # 1 /\ 1 + 1 = 2
    BY <1>1, <1>2
  <2>2. Min({1 + l, Len(t)}) = l + 1
    <3> DEFINE S == {1 + l, Len(t)}
    <3>1. S \in SUBSET Int /\ 1 + l \in S /\ \A y \in S : 1 + l <= y
      BY <2>1
    <3> HIDE DEF S
    <3>2. Min(S) = 1 + l
      BY <3>1, MinIs
    <3> QED
      BY <1>1, <3>2 DEF S
  <2>3. CutName(t) = Substr(t, 1, l)
    BY <1>4, <1>7, <2>1 DEF CutName
  <2> QED
    BY <2>1, <2>2, <2>3 DEF Substr
<1>6. SubSeq(t, 2, l + 1) = n
  <2>1. \A k \in 2..l + 1 : t[k] \in Symbol
    <3>1. \A k \in 2..l + 1 : k \in 1..Len(t)
      BY <1>1, <1>2
    <3> QED
      BY <1>2, <3>1, ByMembers
  <2>2. l + 1 \in Int /\ (2 <= l + 1 <=> l # 0) /\ (l + 1) - 2 + 1 = l
    BY <1>1
  <2>3. SubSeq(t, 2, l + 1) \in Seq(Symbol) /\ Len(SubSeq(t, 2, l + 1)) = l
        /\ \A k \in 1..l : SubSeq(t, 2, l + 1)[k] = t[2 + k - 1]
    BY <2>1, <2>2, SubSeqProperties
  <2>4. \A k \in 1..l : 2 + k - 1 = k + 1
    BY <1>1
  <2>5. \A k \in 1..l : SubSeq(t, 2, l + 1)[k] = n[k]
    BY <1>2, <2>3, <2>4
  <2> QED
    BY <2>3, <2>5, SeqEqual
<1> QED
  BY <1>4, <1>5, <1>6, <1>7 DEF t

LEMMA FilterStep ==
  ASSUME TextOK, FilterExact, [Next]_vars
  PROVE  FilterExact'
<1>1. CASE UNCHANGED vars
  BY <1>1 DEF FilterExact, vars
<1>2. CASE ShowChat
  <2>1. text = Say(nick, Meant) /\ nick \in Seq(Symbol) /\ typed \in Seq(Symbol)
        /\ UNCHANGED <<nick, theirs>>
    BY <1>2 DEF ShowChat, Goto, TextOK
  <2>2. "]" \notin Range(nick) => (Unwanted(text) <=> nick \in theirs)
    BY <2>1, TrimMeant, CutSay DEF Unwanted
  <2>3. stage' = IF Unwanted(text) THEN "hidden" ELSE "printed"
    BY <1>2 DEF ShowChat, Goto
  <2> QED
    BY <2>1, <2>2, <2>3 DEF FilterExact
<1>3. CASE ChildTrim \/ ChildRoute \/ ParentRoute \/ ServerRoute \/ ShowPrivate
  <2>1. stage' \notin {"hidden", "printed"}
    BY <1>3 DEF ChildTrim, ChildRoute, ParentRoute, ServerRoute, ShowPrivate, Private, Goto
  <2> QED
    BY <2>1 DEF FilterExact
<1> QED
  BY <1>1, <1>2, <1>3 DEF Next

-----------------------------------------------------------------------------
(* Folds.  A step of a fold is a function: the provers cannot be given an  *)
(* operator.                                                               *)

\* f folds the steps g over each set of places up to n, the last place last.
FoldsTo(f, g, base, n) ==
  f = [r \in SUBSET (1..n) |-> IF r = {} THEN base ELSE g[Max(r)][f[r \ {Max(r)}]]]

\* What it gives a set of places comes from what it gives the places before the last one.
FoldAt(f, g, base, n) ==
  \A r \in SUBSET (1..n) : f[r] = IF r = {} THEN base ELSE g[Max(r)][f[r \ {Max(r)}]]

LEMMA FoldsToAt ==
  ASSUME NEW f, NEW g, NEW base, NEW n, FoldsTo(f, g, base, n)
  PROVE  FoldAt(f, g, base, n)
<1> DEFINE h == [r \in SUBSET (1..n) |-> IF r = {} THEN base ELSE g[Max(r)][f[r \ {Max(r)}]]]
<1>1. f = h
  BY DEF FoldsTo
<1>2. \A r \in SUBSET (1..n) : h[r] = IF r = {} THEN base ELSE g[Max(r)][f[r \ {Max(r)}]]
  OBVIOUS
<1> QED
  BY <1>1, <1>2, Zenon DEF FoldAt

\* There is such a function: it is made for more and more places.
LEMMA FoldExists ==
  ASSUME NEW g, NEW base, NEW n \in Nat
  PROVE  \E f : FoldsTo(f, g, base, n)
<1> DEFINE S == {k \in Nat : ~ \E f : FoldsTo(f, g, base, k)}
<1>1. ASSUME S # {}
      PROVE  FALSE
  <2>1. PICK m \in S : \A y \in S : m <= y
    BY <1>1, LeastOf
  <2>2. CASE m = 0
    <3> DEFINE e == [r \in SUBSET (1..0) |-> base]
    <3>1. \A r \in SUBSET (1..0) : r = {}
      OBVIOUS
    <3>2. e = [r \in SUBSET (1..0) |-> IF r = {} THEN base ELSE g[Max(r)][e[r \ {Max(r)}]]]
      BY <3>1
    <3> HIDE DEF e
    <3>3. FoldsTo(e, g, base, 0)
      BY <3>2 DEF FoldsTo
    <3> QED
      BY <2>1, <2>2, <3>3
  <2>3. CASE m # 0
    <3>1. m \in Nat /\ m - 1 \in Nat /\ m - 1 \notin S /\ m \in 1..m
      BY <2>1, <2>3
    <3>2. PICK f : FoldsTo(f, g, base, m - 1)
      BY <3>1
    <3> DEFINE h == [r \in SUBSET (1..m) |-> IF m \in r THEN g[m][f[r \ {m}]] ELSE f[r]]
               hh == [r \in SUBSET (1..m) |-> IF r = {} THEN base ELSE g[Max(r)][h[r \ {Max(r)}]]]
    <3>3. ASSUME NEW r \in SUBSET (1..m)
          PROVE  h[r] = hh[r]
      <4>1. \A x \in SUBSET (1..m) : m \notin x => x \in SUBSET (1..m - 1)
        BY <3>1
      <4>2. CASE m \in r
        <5>1. Max(r) = m
          <6>1. r \in SUBSET Int /\ \A y \in r : y <= m
            BY <3>1
          <6> QED
            BY <4>2, <6>1, MaxIs
        <5>2. h[r] = g[m][f[r \ {m}]]
          BY <4>2
        <5>3. h[r \ {m}] = f[r \ {m}]
          <6>1. r \ {m} \in SUBSET (1..m) /\ m \notin r \ {m}
            OBVIOUS
          <6> QED
            BY <6>1
        <5> HIDE DEF h
        <5>4. hh[r] = g[m][h[r \ {m}]]
          BY <4>2, <5>1
        <5> QED
          BY <5>2, <5>3, <5>4
      <4>3. CASE m \notin r
        <5>1. h[r] = f[r] /\ r \in SUBSET (1..m - 1)
          BY <4>1, <4>3
        <5>2. f[r] = IF r = {} THEN base ELSE g[Max(r)][f[r \ {Max(r)}]]
          <6> HIDE DEF h, hh, S
          <6>1. FoldAt(f, g, base, m - 1)
            BY <3>2, FoldsToAt
          <6> QED
            BY <5>1, <6>1 DEF FoldAt
        <5>3. h[r \ {Max(r)}] = f[r \ {Max(r)}]
          <6>1. r \ {Max(r)} \in SUBSET (1..m) /\ m \notin r \ {Max(r)}
            BY <4>3
          <6> QED
            BY <6>1
        <5> HIDE DEF h
        <5>4. hh[r] = IF r = {} THEN base ELSE g[Max(r)][h[r \ {Max(r)}]]
          OBVIOUS
        <5> QED
          BY <5>1, <5>2, <5>3, <5>4
      <4> QED
        BY <4>2, <4>3
    <3>4. h = hh
      BY <3>3
    <3> HIDE DEF h
    <3>5. FoldsTo(h, g, base, m)
      BY <3>4 DEF FoldsTo
    <3> QED
      BY <2>1, <3>5
  <2> QED
    BY <2>2, <2>3
<1> QED
  BY <1>1

LEMMA FoldIs ==
  ASSUME NEW g, NEW base, NEW n \in Nat
  PROVE  \E f : FoldsTo(f, g, base, n) /\ FoldAt(f, g, base, n)
<1>1. PICK f : FoldsTo(f, g, base, n)
  BY FoldExists
<1>2. FoldAt(f, g, base, n)
  BY <1>1, FoldsToAt
<1> QED
  BY <1>1, <1>2

\* The last of the first k places.
LEMMA LastPlace ==
  ASSUME NEW k \in Nat \ {0}
  PROVE  1..k # {} /\ Max(1..k) = k /\ (1..k) \ {k} = 1..k - 1
<1>1. Max(1..k) = k
  <2>1. PICK S : S = 1..k
    OBVIOUS
  <2>2. S \in SUBSET Int /\ k \in S /\ \A y \in S : y <= k
    BY <2>1
  <2> QED
    BY <2>1, <2>2, MaxIs
<1>2. (1..k) \ {k} = 1..k - 1 /\ k \in 1..k
  OBVIOUS
<1> QED
  BY <1>1, <1>2

\* If every step stays in a set, so does the fold, whichever places it goes over.
LEMMA FoldStays ==
  ASSUME NEW f, NEW V, NEW n \in Nat, f[{}] \in V,
         \A r \in SUBSET (1..n) : r # {} /\ f[r \ {Max(r)}] \in V => f[r] \in V
  PROVE  \A r \in SUBSET (1..n) : f[r] \in V
<1> DEFINE S == {k \in 0..n : ~ \A r \in SUBSET (1..k) : f[r] \in V}
<1>1. ASSUME S # {}
      PROVE  FALSE
  <2>1. PICK m \in S : \A y \in S : m <= y
    <3>1. S \in SUBSET Nat
      OBVIOUS
    <3> QED
      BY <1>1, <3>1, LeastOf
  <2>2. PICK r \in SUBSET (1..m) : f[r] \notin V
    BY <2>1
  <2>3. r \in SUBSET (1..n) /\ m \in Nat
    BY <2>1
  <2>4. r # {} /\ f[r \ {Max(r)}] \notin V
    BY <2>2, <2>3
  <2>5. Max(r) \in r /\ \A y \in r : y <= Max(r)
    BY <2>3, <2>4, MaxOf
  <2> DEFINE x == Max(r)
  <2> HIDE DEF x
  <2>6. x \in 1..m /\ m - 1 \in Nat /\ m - 1 < m
    <3>1. x \in r
      BY <2>5 DEF x
    <3> QED
      BY <2>2, <2>3, <3>1
  <2>7. m - 1 \notin S /\ m - 1 \in 0..n
    <3>1. m - 1 \in 0..n
      BY <2>1, <2>6
    <3>2. m \in Int
      BY <2>1
    <3> HIDE DEF S
    <3> QED
      BY <2>1, <2>6, <3>1, <3>2
  <2>8. r \ {x} \in SUBSET (1..m - 1)
    <3>1. \A y \in r \ {x} : y \in Int /\ 1 <= y /\ y <= x /\ y # x
      BY <2>2, <2>5 DEF x
    <3> QED
      BY <2>6, <3>1
  <2>9. f[r \ {x}] \in V
    BY <2>7, <2>8
  <2> QED
    BY <2>4, <2>9 DEF x
<1>2. n \notin S
  BY <1>1
<1> QED
  BY <1>2

-----------------------------------------------------------------------------
(* Words.                                                                  *)

Word == Seq(Symbol \ {Blank}) \ {<<>>}

\* A place a word begins at.
Begins(s, k) == s[k] # Blank /\ (k = 1 \/ s[k - 1] = Blank)

LEMMA TokenIsWord ==
  ASSUME NEW s \in Seq(Symbol), NEW k \in DOMAIN s, s[k] # Blank
  PROVE  Token(s, k) \in Word
<1> DEFINE E == {e \in k..Len(s) : \A j \in k..e : s[j] # Blank}
           m == Max(E)
<1>1. Len(s) \in Nat /\ DOMAIN s = 1..Len(s) /\ k \in 1..Len(s) /\ k \in Nat
  BY ByMembers
<1>2. E \in SUBSET (1..Len(s)) /\ k \in E
  BY <1>1
<1>3. m \in E
  <2> HIDE DEF E
  <2> QED
    BY <1>1, <1>2, MaxOf
<1>4. m \in k..Len(s) /\ \A j \in k..m : s[j] # Blank
  BY <1>3
<1> HIDE DEF m
<1>5. Token(s, k) = SubSeq(s, k, m)
  BY DEF Token, m
<1>6. \A j \in k..m : s[j] \in Symbol \ {Blank}
  <2>1. \A j \in k..m : j \in 1..Len(s)
    BY <1>1, <1>4
  <2> QED
    BY <1>4, <2>1, ByMembers
<1>7. m \in Int /\ k \in Int /\ k <= m /\ m - k + 1 # 0
  BY <1>1, <1>4
<1>8. SubSeq(s, k, m) \in Seq(Symbol \ {Blank}) /\ Len(SubSeq(s, k, m)) = m - k + 1
  BY <1>6, <1>7, SubSeqProperties
<1>9. SubSeq(s, k, m) # <<>>
  BY <1>7, <1>8, EmptySeq
<1> QED
  BY <1>5, <1>8, <1>9 DEF Word

\* strtok finds words.
LEMMA WordsAre ==
  ASSUME NEW s \in Seq(Symbol)
  PROVE  Words(s) \in Seq(Word)
<1> DEFINE n == Len(s)
           Step(ws, k) == IF Begins(s, k) THEN Append(ws, Token(s, k)) ELSE ws
<1>1. n \in Nat /\ DOMAIN s = 1..n /\ <<>> \in Seq(Word)
  BY ByMembers
<1>2. \A k \in 1..n, ws \in Seq(Word) : Step(ws, k) \in Seq(Word)
  <2> SUFFICES ASSUME NEW k \in 1..n, NEW ws \in Seq(Word) PROVE Step(ws, k) \in Seq(Word)
    OBVIOUS
  <2>1. CASE Begins(s, k)
    <3>1. Token(s, k) \in Word
      BY <1>1, <2>1, TokenIsWord DEF Begins
    <3> QED
      BY <2>1, <3>1, AppendProperties
  <2> QED
    BY <2>1
<1>3. PICK places : places = [k \in 1..n |-> k]
  OBVIOUS
<1> DEFINE IsFold(f) == f = [r \in SUBSET DOMAIN places |->
                               IF r = {} THEN <<>> ELSE Step(f[r \ {Max(r)}], places[Max(r)])]
           F == CHOOSE f : IsFold(f)
<1>4. Words(s) = F[DOMAIN places]
  <2>1. Words(s) = FoldLeft(Step, <<>>, places)
    BY <1>1, <1>3 DEF Words, Begins
  <2> QED
    BY <2>1 DEF FoldLeft, MapThenFoldSet
<1> HIDE DEF n
<1>5. \A r \in SUBSET (1..n) : r # {} => Max(r) \in 1..n /\ places[Max(r)] = Max(r)
                                        /\ r \ {Max(r)} \in SUBSET (1..n)
  <2> SUFFICES ASSUME NEW r \in SUBSET (1..n), r # {}
               PROVE  Max(r) \in 1..n /\ places[Max(r)] = Max(r) /\ r \ {Max(r)} \in SUBSET (1..n)
    OBVIOUS
  <2>1. Max(r) \in r
    BY <1>1, MaxOf
  <2> QED
    BY <1>3, <2>1
<1>6. PICK g : g = [k \in 1..n |-> [ws \in Seq(Word) |-> Step(ws, k)]]
  OBVIOUS
<1>7. PICK f : FoldsTo(f, g, <<>>, n) /\ FoldAt(f, g, <<>>, n)
  BY <1>1, FoldIs
<1>8. \A k \in 1..n, ws \in Seq(Word) : g[k][ws] = Step(ws, k)
  BY <1>6
<1> HIDE DEF Step
<1>9. \A r \in SUBSET (1..n) : f[r] \in Seq(Word)
  <2>1. f[{}] \in Seq(Word)
    BY <1>1, <1>7 DEF FoldAt
  <2>2. \A r \in SUBSET (1..n) : r # {} /\ f[r \ {Max(r)}] \in Seq(Word) => f[r] \in Seq(Word)
    <3> SUFFICES ASSUME NEW r \in SUBSET (1..n), r # {}, f[r \ {Max(r)}] \in Seq(Word)
                 PROVE  f[r] \in Seq(Word)
      OBVIOUS
    <3>1. Max(r) \in 1..n
      BY <1>5
    <3>2. f[r] = Step(f[r \ {Max(r)}], Max(r))
      BY <1>7, <1>8, <3>1 DEF FoldAt
    <3> QED
      BY <1>2, <3>1, <3>2
  <2> QED
    BY <1>1, <2>1, <2>2, FoldStays
<1>10. IsFold(f)
  <2>1. DOMAIN places = 1..n
    BY <1>3
  <2>2. f = [r \in SUBSET (1..n) |-> IF r = {} THEN <<>> ELSE g[Max(r)][f[r \ {Max(r)}]]]
    BY <1>7 DEF FoldsTo
  <2>3. \A r \in SUBSET (1..n) : r # {} => g[Max(r)][f[r \ {Max(r)}]]
                                          = Step(f[r \ {Max(r)}], places[Max(r)])
    BY <1>5, <1>8, <1>9
  <2> QED
    BY <2>1, <2>2, <2>3
<1>11. IsFold(F)
  <2> HIDE DEF IsFold
  <2> QED
    BY <1>10
<1> HIDE DEF F
<1>12. \A r \in SUBSET (1..n) :
         F[r] = IF r = {} THEN <<>> ELSE Step(F[r \ {Max(r)}], places[Max(r)])
  <2>1. DOMAIN places = 1..n
    BY <1>3
  <2> QED
    BY <1>11, <2>1
<1>13. \A r \in SUBSET (1..n) : F[r] \in Seq(Word)
  <2>1. F[{}] \in Seq(Word)
    BY <1>1, <1>12
  <2>2. \A r \in SUBSET (1..n) : r # {} /\ F[r \ {Max(r)}] \in Seq(Word) => F[r] \in Seq(Word)
    <3> SUFFICES ASSUME NEW r \in SUBSET (1..n), r # {}, F[r \ {Max(r)}] \in Seq(Word)
                 PROVE  F[r] \in Seq(Word)
      OBVIOUS
    <3>1. Max(r) \in 1..n /\ places[Max(r)] = Max(r)
      BY <1>5
    <3>2. F[r] = Step(F[r \ {Max(r)}], Max(r))
      BY <1>12, <3>1
    <3> QED
      BY <1>2, <3>1, <3>2
  <2> QED
    BY <1>1, <2>1, <2>2, FoldStays
<1>14. DOMAIN places \in SUBSET (1..n)
  BY <1>3
<1> QED
  BY <1>4, <1>13, <1>14

-----------------------------------------------------------------------------
(* The block command.                                                      *)

Named(b, w) == IF Head(w) = "!" THEN b \ {Tail(w)} ELSE b \union {w}

\* The names are taken one after the other.
LEMMA NamesInTurn ==
  ASSUME NEW s \in Seq(Symbol), NEW old \in SUBSET Seq(Symbol), NEW t \in Seq(Word), t = Tail(Words(s))
  PROVE  \E q : /\ q[0] = old /\ q[Len(t)] = BlockFold(s, old)
                /\ \A k \in 1..Len(t) : q[k] = Named(q[k - 1], t[k])
<1>0. PICK n : n = Len(t)
  OBVIOUS
<1> DEFINE V == SUBSET Seq(Symbol)
           IsFold(f) == f = [r \in SUBSET DOMAIN t |->
                               IF r = {} THEN old ELSE Named(f[r \ {Max(r)}], t[Max(r)])]
           F == CHOOSE f : IsFold(f)
<1>1. n \in Nat /\ DOMAIN t = 1..n /\ \A k \in 1..n : t[k] \in Word
  BY <1>0, ByMembers
<1>2. \A k \in 1..n, b \in V : Named(b, t[k]) \in V
  <2>1. Word \subseteq Seq(Symbol)
    <3>1. Symbol \ {Blank} \subseteq Symbol
      OBVIOUS
    <3>2. \A w \in Seq(Symbol \ {Blank}) : w \in Seq(Symbol)
      BY <3>1, SeqIn
    <3> QED
      BY <3>2 DEF Word
  <2> QED
    BY <1>1, <2>1 DEF Named
<1>3. BlockFold(s, old) = F[DOMAIN t]
  <2>1. BlockFold(s, old) = FoldLeft(Named, old, t)
    BY DEF BlockFold, Named
  <2> QED
    BY <2>1 DEF FoldLeft, MapThenFoldSet
<1> HIDE DEF V
<1>4. \A r \in SUBSET (1..n) : r # {} => Max(r) \in 1..n /\ r \ {Max(r)} \in SUBSET (1..n)
  <2> SUFFICES ASSUME NEW r \in SUBSET (1..n), r # {}
               PROVE  Max(r) \in 1..n /\ r \ {Max(r)} \in SUBSET (1..n)
    OBVIOUS
  <2>1. Max(r) \in r
    BY <1>1, MaxOf
  <2> QED
    BY <2>1
<1>5. PICK g : g = [k \in 1..n |-> [b \in V |-> Named(b, t[k])]]
  OBVIOUS
<1>6. PICK f : FoldsTo(f, g, old, n) /\ FoldAt(f, g, old, n)
  BY <1>1, FoldIs
<1>7. \A k \in 1..n, b \in V : g[k][b] = Named(b, t[k])
  BY <1>5
<1>8. old \in V
  BY DEF V
<1>9. \A r \in SUBSET (1..n) : f[r] \in V
  <2>1. f[{}] \in V
    BY <1>6, <1>8 DEF FoldAt
  <2>2. \A r \in SUBSET (1..n) : r # {} /\ f[r \ {Max(r)}] \in V => f[r] \in V
    <3> SUFFICES ASSUME NEW r \in SUBSET (1..n), r # {}, f[r \ {Max(r)}] \in V
                 PROVE  f[r] \in V
      OBVIOUS
    <3>1. Max(r) \in 1..n
      BY <1>4
    <3>2. f[r] = Named(f[r \ {Max(r)}], t[Max(r)])
      BY <1>6, <1>7, <3>1 DEF FoldAt
    <3> QED
      BY <1>2, <3>1, <3>2
  <2> QED
    BY <1>1, <2>1, <2>2, FoldStays
<1>10. IsFold(f)
  <2>1. f = [r \in SUBSET (1..n) |-> IF r = {} THEN old ELSE g[Max(r)][f[r \ {Max(r)}]]]
    BY <1>6 DEF FoldsTo
  <2>2. \A r \in SUBSET (1..n) : r # {} => g[Max(r)][f[r \ {Max(r)}]]
                                          = Named(f[r \ {Max(r)}], t[Max(r)])
    BY <1>4, <1>7, <1>9
  <2> QED
    BY <1>1, <2>1, <2>2
<1>11. IsFold(F)
  <2> HIDE DEF IsFold
  <2> QED
    BY <1>10
<1> HIDE DEF F
<1>12. \A r \in SUBSET (1..n) : F[r] = IF r = {} THEN old ELSE Named(F[r \ {Max(r)}], t[Max(r)])
  BY <1>1, <1>11
<1> DEFINE q == [k \in 0..n |-> F[1..k]]
<1>13. q[0] = old
  <2>1. 0 \in 0..n /\ 1..0 = {}
    BY <1>1
  <2> QED
    BY <1>12, <2>1
<1>14. q[n] = BlockFold(s, old)
  BY <1>1, <1>3
<1>15. ASSUME NEW k \in 1..n
       PROVE  q[k] = Named(q[k - 1], t[k])
  <2>1. k \in Nat \ {0} /\ k \in 0..n /\ k - 1 \in 0..n /\ 1..k \in SUBSET (1..n)
    BY <1>1
  <2>2. 1..k # {} /\ Max(1..k) = k /\ (1..k) \ {k} = 1..k - 1
    BY <2>1, LastPlace
  <2>3. F[1..k] = Named(F[1..k - 1], t[k])
    BY <1>12, <2>1, <2>2
  <2> QED
    BY <2>1, <2>3
<1> QED
  BY ZenonT(60), <1>0, <1>13, <1>14, <1>15

\* A sequence is its head and its tail.
LEMMA HeadBack ==
  ASSUME NEW S, NEW w \in Seq(S), w # <<>>
  PROVE  w = <<Head(w)>> \o Tail(w)
<1>1. PICK n \in Nat \ {0} : n = Len(w)
  BY EmptySeq
<1>2. 1 \in 1..n /\ n \in 1..n /\ 1 + 1 = 2
  OBVIOUS
<1>3. SubSeq(w, 1, n) = w /\ Tail(w) = SubSeq(w, 2, n)
  BY <1>1, SubSeqFull, TailIsSubSeq
<1>4. SubSeq(w, 1, n) = <<w[1]>> \o SubSeq(w, 2, n)
  BY <1>1, <1>2, SubSeqRecursiveFirst
<1>5. Head(w) = w[1]
  OBVIOUS
<1> QED
  BY <1>3, <1>4, <1>5

LEMMA Behind ==
  ASSUME NEW S, NEW x \in S, NEW n \in Seq(S)
  PROVE  Head(<<x>> \o n) = x /\ Tail(<<x>> \o n) = n /\ <<x>> \o n # <<>>
<1>1. <<x>> \in Seq(S) /\ Len(<<x>>) = 1 /\ <<x>>[1] = x
  OBVIOUS
<1>2. PICK w \in Seq(S) : w = <<x>> \o n
  BY <1>1, ConcatProperties
<1>3. Len(w) = 1 + Len(n) /\ \A i \in 1..1 + Len(n) : w[i] = IF i <= 1 THEN <<x>>[i] ELSE n[i - 1]
  BY <1>1, <1>2, ConcatProperties
<1>4. Len(n) \in Nat
  BY LenProperties
<1>5. w[1] = x /\ Len(w) # 0 /\ Len(w) - 1 = Len(n)
  BY <1>1, <1>3, <1>4
<1>6. w # <<>>
  BY <1>5, EmptySeq
<1>7. Head(w) = x
  BY <1>5
<1>8. Tail(w) \in Seq(S) /\ Len(Tail(w)) = Len(n) /\ \A i \in 1..Len(n) : Tail(w)[i] = w[i + 1]
  BY <1>5, <1>6, HeadTailProperties
<1>9. \A i \in 1..Len(n) : i + 1 \in 1..1 + Len(n) /\ ~(i + 1 <= 1) /\ (i + 1) - 1 = i
  BY <1>4
<1>10. \A i \in 1..Len(n) : Tail(w)[i] = n[i]
  BY <1>3, <1>8, <1>9
<1>11. Tail(w) = n
  BY <1>8, <1>10, SeqEqual
<1> QED
  BY <1>2, <1>6, <1>7, <1>11

\* One name.
LEMMA OneName ==
  ASSUME NEW b, NEW w \in Word, NEW n \in Seq(Symbol), n # <<>>, Head(n) # "!"
  PROVE  /\ w = n => n \in Named(b, w)
         /\ w = <<"!">> \o n => n \notin Named(b, w) /\ w # n
         /\ w \notin {n, <<"!">> \o n} => (n \in Named(b, w) <=> n \in b)
<1>1. "!" \in Symbol
  BY DEF Symbol
<1>2. Head(<<"!">> \o n) = "!" /\ Tail(<<"!">> \o n) = n
  BY <1>1, Behind
<1>3. w \in Seq(Symbol \ {Blank}) /\ w # <<>>
  BY DEF Word
<1>4. w = <<Head(w)>> \o Tail(w)
  BY <1>3, HeadBack
<1>5. CASE Head(w) = "!"
  <2>1. w \notin {n, <<"!">> \o n} => Tail(w) # n
    BY <1>4, <1>5
  <2>2. w # n
    BY <1>5
  <2> QED
    BY <1>2, <1>5, <2>1, <2>2 DEF Named
<1>6. CASE Head(w) # "!"
  <2>1. w # <<"!">> \o n
    BY <1>2, <1>6
  <2> QED
    BY <1>6, <2>1 DEF Named
<1> QED
  BY <1>5, <1>6

\* The last mention of a name counts.
LEMMA LastMention ==
  ASSUME NEW s \in Seq(Symbol), NEW old \in SUBSET Seq(Symbol),
         NEW n \in Seq(Symbol), n # <<>>, Head(n) # "!", NEW M, M # {},
         M = {k \in DOMAIN Words(s) : k > 1 /\ Words(s)[k] \in {n, <<"!">> \o n}}
  PROVE  n \in BlockFold(s, old) <=> Words(s)[Max(M)] = n
<1>1. PICK ws \in Seq(Word) : ws = Words(s)
  BY WordsAre
<1>2. PICK l \in Nat : l = Len(ws) /\ DOMAIN ws = 1..l
  BY ByMembers
<1>3. M \in SUBSET (1..l)
  BY <1>1, <1>2
<1>4. PICK m \in M : m = Max(M) /\ \A y \in M : y <= m
  BY <1>3, MaxOf
<1>5. m \in 1..l /\ m > 1 /\ m \in Nat /\ l # 0 /\ ws[m] \in {n, <<"!">> \o n}
  <2>1. m \in 1..l
    BY <1>3, <1>4
  <2>2. m > 1 /\ ws[m] \in {n, <<"!">> \o n}
    BY <1>1, <1>4
  <2> QED
    BY <2>1, <2>2
<1>6. PICK t \in Seq(Word) : t = Tail(ws) /\ Len(t) = l - 1 /\ \A k \in 1..l - 1 : t[k] = ws[k + 1]
  <2>1. ws # <<>>
    BY <1>2, <1>5, EmptySeq
  <2>2. /\ Tail(ws) \in Seq(Word) /\ Len(Tail(ws)) = l - 1
        /\ \A k \in 1..Len(Tail(ws)) : Tail(ws)[k] = ws[k + 1]
    BY <1>2, <2>1, HeadTailProperties
  <2> QED
    BY <2>2
<1>7. PICK q : /\ q[l - 1] = BlockFold(s, old)
               /\ \A k \in 1..l - 1 : q[k] = Named(q[k - 1], t[k])
  <2>1. t = Tail(Words(s)) /\ Len(t) = l - 1
    BY <1>1, <1>6
  <2>2. \E q : /\ q[0] = old /\ q[Len(t)] = BlockFold(s, old)
               /\ \A k \in 1..Len(t) : q[k] = Named(q[k - 1], t[k])
    BY ZenonT(60), <2>1, NamesInTurn
  <2> QED
    BY <2>1, <2>2
<1>8. \A k \in 1..l - 1 : t[k] \in Word
  BY <1>6, ByMembers
<1> DEFINE S == {k \in m - 1..l - 1 : ~(n \in q[k] <=> ws[m] = n)}
<1>9. ASSUME S # {}
      PROVE  FALSE
  <2>1. PICK k \in S : \A y \in S : k <= y
    <3>1. S \in SUBSET Nat
      BY <1>5
    <3> HIDE DEF S
    <3> QED
      BY <1>9, <3>1, LeastOf
  <2>2. k \in 1..l - 1 /\ k \in Nat /\ m - 1 <= k /\ ~(n \in q[k] <=> ws[m] = n)
    BY <1>5, <2>1
  <2>3. q[k] = Named(q[k - 1], t[k]) /\ t[k] \in Word /\ t[k] = ws[k + 1]
    BY <1>6, <1>7, <1>8, <2>2
  <2>4. /\ t[k] = n => n \in q[k]
        /\ t[k] = <<"!">> \o n => n \notin q[k] /\ t[k] # n
        /\ t[k] \notin {n, <<"!">> \o n} => (n \in q[k] <=> n \in q[k - 1])
    <3>1. PICK b : b = q[k - 1]
      OBVIOUS
    <3>2. PICK w \in Word : w = t[k]
      BY <2>3
    <3>3. /\ w = n => n \in Named(b, w)
          /\ w = <<"!">> \o n => n \notin Named(b, w) /\ w # n
          /\ w \notin {n, <<"!">> \o n} => (n \in Named(b, w) <=> n \in b)
      BY OneName
    <3> QED
      BY <2>3, <3>1, <3>2, <3>3
  <2>5. CASE k = m - 1
    <3>1. t[k] = ws[m]
      BY <1>5, <2>3, <2>5
    <3> QED
      BY <1>5, <2>2, <2>4, <3>1
  <2>6. CASE k # m - 1
    <3>1. k - 1 \in m - 1..l - 1 /\ ~(k <= k - 1)
      BY <1>5, <2>2, <2>6
    <3>2. k - 1 \notin S
      <4> HIDE DEF S
      <4> QED
        BY <2>1, <3>1
    <3>3. n \in q[k - 1] <=> ws[m] = n
      BY <3>1, <3>2
    <3>4. k + 1 \in 1..l /\ k + 1 > 1 /\ ~(k + 1 <= m)
      BY <1>2, <1>5, <2>2, <2>6
    <3>5. k + 1 \notin M
      BY <1>4, <3>4
    <3>6. ws[k + 1] \notin {n, <<"!">> \o n}
      BY <1>1, <1>2, <3>4, <3>5
    <3> QED
      BY <2>2, <2>3, <2>4, <3>3, <3>6
  <2> QED
    BY <2>5, <2>6
<1>10. l - 1 \in m - 1..l - 1
  BY <1>5
<1>11. n \in q[l - 1] <=> ws[m] = n
  BY <1>9, <1>10
<1> QED
  BY <1>1, <1>4, <1>7, <1>11

-----------------------------------------------------------------------------
(* The private message.                                                    *)

LEMMA WordIs ==
  ASSUME NEW w \in Word
  PROVE  /\ w \in Seq(Symbol) /\ Len(w) \in Nat \ {0} /\ DOMAIN w = 1..Len(w)
         /\ \A k \in 1..Len(w) : w[k] \in Symbol /\ w[k] # Blank
<1>1. w \in Seq(Symbol \ {Blank}) /\ w # <<>>
  BY DEF Word
<1>2. Len(w) \in Nat \ {0} /\ DOMAIN w = 1..Len(w) /\ \A k \in 1..Len(w) : w[k] \in Symbol \ {Blank}
  BY <1>1, ByMembers, EmptySeq
<1>3. w \in Seq(Symbol)
  <2>1. Symbol \ {Blank} \subseteq Symbol
    OBVIOUS
  <2> QED
    BY <1>1, <2>1, SeqIn
<1> QED
  BY <1>2, <1>3

\* trim leaves of a word with blanks behind it the word.
LEMMA TrimWord ==
  ASSUME NEW w \in Word, NEW u \in Seq(Symbol), Len(w) <= Len(u),
         \A k \in 1..Len(w) : u[k] = w[k], \A k \in Len(w) + 1..Len(u) : u[k] = Blank
  PROVE  Trim(u) = w /\ ~TrimDies(u)
<1> DEFINE a == Len(w)
           I == {k \in 1..Len(u) : u[k] # Blank}
<1>1. /\ a \in Nat \ {0} /\ Len(u) \in Nat /\ w \in Seq(Symbol)
      /\ \A k \in 1..a : w[k] \in Symbol /\ w[k] # Blank
  BY WordIs, LenProperties
<1>2. DOMAIN u = 1..Len(u) /\ u # <<>>
  BY <1>1, ByMembers, EmptySeq
<1>3. \A k \in 1..Len(u) : u[k] # Blank <=> k \in 1..a
  <2>1. \A k \in 1..Len(u) : k \in 1..a \/ k \in a + 1..Len(u)
    BY <1>1
  <2> QED
    BY <1>1, <2>1
<1> HIDE DEF a
<1>4. I = 1..a
  <2>1. 1..a \subseteq 1..Len(u)
    BY <1>1 DEF a
  <2> QED
    BY <1>3, <2>1
<1> HIDE DEF I
<1>5. Min(I) = 1
  <2>1. I \in SUBSET Int /\ 1 \in I /\ \A y \in I : 1 <= y
    BY <1>1, <1>4
  <2> QED
    BY <2>1, MinIs
<1>6. Max(I) = a
  <2>1. I \in SUBSET Int /\ a \in I /\ \A y \in I : y <= a
    BY <1>1, <1>4
  <2> QED
    BY <2>1, MaxIs
<1>7. Trim(u) = SubSeq(u, 1, a)
  <2>0. 1 \in 1..a
    BY <1>1
  <2>1. I # {}
    BY <1>4, <2>0
  <2>2. SelectInSeq(u, LAMBDA c : c # Blank) = Min(I)
    BY <2>1 DEF SelectInSeq, I
  <2>3. SelectLastInSeq(u, LAMBDA c : c # Blank) = Max(I)
    BY <2>1 DEF SelectLastInSeq, I
  <2> QED
    BY <1>2, <1>5, <1>6, <2>2, <2>3 DEF Trim
<1>8. SubSeq(u, 1, a) = w
  <2>1. \A k \in 1..a : k \in 1..Len(u) /\ u[k] \in Symbol
    <3>1. \A k \in 1..a : k \in 1..Len(u)
      BY <1>1 DEF a
    <3> QED
      BY <3>1, ByMembers
  <2>2. a \in Int /\ 1 <= a /\ a - 1 + 1 = a /\ \A k \in 1..a : 1 + k - 1 = k
    BY <1>1
  <2>3. SubSeq(u, 1, a) \in Seq(Symbol) /\ Len(SubSeq(u, 1, a)) = a
        /\ \A k \in 1..a - 1 + 1 : SubSeq(u, 1, a)[k] = u[1 + k - 1]
    BY <2>1, <2>2, SubSeqProperties
  <2>4. \A k \in 1..a : SubSeq(u, 1, a)[k] = w[k]
    BY <2>2, <2>3 DEF a
  <2> QED
    BY <1>1, <2>3, <2>4, SeqEqual DEF a
<1>9. ~TrimDies(u)
  <2>1. 1 \in DOMAIN u /\ u[1] # Blank
    BY <1>1, <1>2, <1>3 DEF a
  <2>2. u[1] \in Range(u)
    BY <2>1 DEF Range
  <2> QED
    BY <2>1, <2>2 DEF TrimDies
<1> QED
  BY <1>7, <1>8, <1>9

\* Two texts, one behind the other.
LEMMA Joined ==
  ASSUME NEW S, NEW p \in Seq(S), NEW q \in Seq(S)
  PROVE  /\ p \o q \in Seq(S) /\ Len(p \o q) = Len(p) + Len(q)
         /\ \A k \in 1..Len(p) : (p \o q)[k] = p[k]
         /\ \A k \in 1..Len(q) : (p \o q)[Len(p) + k] = q[k]
<1>1. p \o q \in Seq(S) /\ Len(p \o q) = Len(p) + Len(q)
  BY ConcatProperties
<1>2. \A k \in 1..Len(p) + Len(q) : (p \o q)[k] = IF k <= Len(p) THEN p[k] ELSE q[k - Len(p)]
  BY ConcatProperties
<1>3. PICK a \in Nat, b \in Nat : a = Len(p) /\ b = Len(q)
  BY LenProperties
<1>4. \A k \in 1..a : k \in 1..a + b /\ k <= a
  OBVIOUS
<1>5. \A k \in 1..b : a + k \in 1..a + b /\ ~(a + k <= a) /\ a + k - a = k
  OBVIOUS
<1>6. \A k \in 1..a : (p \o q)[k] = p[k]
  BY <1>2, <1>3, <1>4
<1>7. \A k \in 1..b : (p \o q)[a + k] = q[k]
  BY <1>2, <1>3, <1>5
<1> QED
  BY <1>1, <1>3, <1>6, <1>7

\* A private message of one word, and what stands where in it.
Message(v, w) == <<">">> \o <<Blank>> \o v \o <<Blank>> \o w

LEMMA PrivateLine ==
  ASSUME NEW v \in Seq(Symbol), NEW w \in Seq(Symbol),
         NEW a \in Nat, NEW b \in Nat, Len(v) = a, Len(w) = b,
         NEW s, s = Message(v, w)
  PROVE  /\ s \in Seq(Symbol) /\ Len(s) = 3 + a + b
         /\ s[1] = ">" /\ s[2] = Blank /\ s[3 + a] = Blank
         /\ \A k \in 1..a : s[2 + k] = v[k]
         /\ \A k \in 1..b : s[3 + a + k] = w[k]
<1>1. /\ <<">">> \in Seq(Symbol) /\ Len(<<">">>) = 1 /\ <<">">>[1] = ">"
      /\ <<Blank>> \in Seq(Symbol) /\ Len(<<Blank>>) = 1 /\ <<Blank>>[1] = Blank
  <2>1. ">" \in Symbol /\ Blank \in Symbol
    BY DEF Symbol, Blank
  <2> HIDE DEF Symbol
  <2>2. <<">">> \in Seq(Symbol)
    BY <2>1
  <2>3. <<Blank>> \in Seq(Symbol)
    BY <2>1
  <2>4. Len(<<">">>) = 1 /\ <<">">>[1] = ">"
    OBVIOUS
  <2>5. Len(<<Blank>>) = 1 /\ <<Blank>>[1] = Blank
    OBVIOUS
  <2> QED
    BY <2>2, <2>3, <2>4, <2>5
<1> DEFINE p == <<">">> \o <<Blank>>
           q == p \o v
           r == q \o <<Blank>>
<1>2. p \in Seq(Symbol) /\ Len(p) = 2 /\ p[1] = ">" /\ p[2] = Blank
  <2>1. p \in Seq(Symbol) /\ Len(p) = 1 + 1
    BY <1>1, Joined
  <2>2. (\A k \in 1..1 : p[k] = <<">">>[k]) /\ (\A k \in 1..1 : p[1 + k] = <<Blank>>[k])
    BY <1>1, Joined
  <2>3. 1 \in 1..1 /\ 1 + 1 = 2
    OBVIOUS
  <2>4. p[1] = ">" /\ p[1 + 1] = Blank
    BY <1>1, <2>2, <2>3
  <2> QED
    BY <2>1, <2>3, <2>4
<1> HIDE DEF p
<1>3. /\ q \in Seq(Symbol) /\ Len(q) = 2 + a
      /\ (\A k \in 1..2 : q[k] = p[k]) /\ (\A k \in 1..a : q[2 + k] = v[k])
  <2>1. PICK c \in Nat : c = 2
    OBVIOUS
  <2>2. p \in Seq(Symbol)
    BY <1>2
  <2>3. p \o v \in Seq(Symbol) /\ Len(p \o v) = Len(p) + Len(v)
    BY <2>2, Joined
  <2>4. \A k \in 1..Len(p) : (p \o v)[k] = p[k]
    BY <2>2, Joined
  <2>5. \A k \in 1..Len(v) : (p \o v)[Len(p) + k] = v[k]
    BY <2>2, Joined
  <2>6. /\ p \o v \in Seq(Symbol) /\ Len(p \o v) = c + a
        /\ (\A k \in 1..c : (p \o v)[k] = p[k]) /\ (\A k \in 1..a : (p \o v)[c + k] = v[k])
    BY <1>2, <2>1, <2>3, <2>4, <2>5
  <2> QED
    BY <2>1, <2>6
<1> HIDE DEF q
<1>4. /\ r \in Seq(Symbol) /\ Len(r) = 2 + a + 1
      /\ (\A k \in 1..2 + a : r[k] = q[k]) /\ (\A k \in 1..1 : r[2 + a + k] = <<Blank>>[k])
  <2>1. PICK c \in Nat : c = 2 + a
    OBVIOUS
  <2>2. /\ q \o <<Blank>> \in Seq(Symbol) /\ Len(q \o <<Blank>>) = Len(q) + Len(<<Blank>>)
        /\ (\A k \in 1..Len(q) : (q \o <<Blank>>)[k] = q[k])
        /\ (\A k \in 1..Len(<<Blank>>) : (q \o <<Blank>>)[Len(q) + k] = <<Blank>>[k])
    BY <1>1, <1>3, Joined
  <2>3. /\ q \o <<Blank>> \in Seq(Symbol) /\ Len(q \o <<Blank>>) = c + 1
        /\ (\A k \in 1..c : (q \o <<Blank>>)[k] = q[k])
        /\ (\A k \in 1..1 : (q \o <<Blank>>)[c + k] = <<Blank>>[k])
    BY <1>1, <1>3, <2>1, <2>2
  <2> QED
    BY <2>1, <2>3
<1> HIDE DEF r
<1>5. /\ s \in Seq(Symbol) /\ Len(s) = 3 + a + b
      /\ (\A k \in 1..3 + a : s[k] = r[k]) /\ (\A k \in 1..b : s[3 + a + k] = w[k])
  <2>1. s = r \o w
    BY DEF p, q, r, Message
  <2>2. PICK c \in Nat : c = 3 + a /\ 2 + a + 1 = c
    OBVIOUS
  <2>3. r \in Seq(Symbol)
    BY <1>4
  <2>4. r \o w \in Seq(Symbol) /\ Len(r \o w) = Len(r) + Len(w)
    BY <2>3, Joined
  <2>5. \A k \in 1..Len(r) : (r \o w)[k] = r[k]
    BY <2>3, Joined
  <2>6. \A k \in 1..Len(w) : (r \o w)[Len(r) + k] = w[k]
    BY <2>3, Joined
  <2>7. /\ r \o w \in Seq(Symbol) /\ Len(r \o w) = c + b
        /\ (\A k \in 1..c : (r \o w)[k] = r[k]) /\ (\A k \in 1..b : (r \o w)[c + k] = w[k])
    BY <1>4, <2>2, <2>4, <2>5, <2>6
  <2> QED
    BY <2>1, <2>2, <2>7
<1>6. 1 \in 1..2 /\ 2 \in 1..2 /\ 1 \in 1..2 + a /\ 2 \in 1..2 + a
      /\ 1 \in 1..3 + a /\ 2 \in 1..3 + a
  OBVIOUS
<1>7. s[1] = ">" /\ s[2] = Blank
  BY <1>2, <1>3, <1>4, <1>5, <1>6
<1>8. s[3 + a] = Blank
  <2>1. 3 + a \in 1..3 + a /\ 1 \in 1..1 /\ 2 + a + 1 = 3 + a
    OBVIOUS
  <2>2. r[2 + a + 1] = Blank
    BY <1>1, <1>4, <2>1
  <2> QED
    BY <1>5, <2>1, <2>2
<1>9. ASSUME NEW k \in 1..a PROVE s[2 + k] = v[k]
  <2>1. 2 + k \in 1..2 + a /\ 2 + k \in 1..3 + a
    OBVIOUS
  <2> QED
    BY <1>3, <1>4, <1>5, <2>1
<1> QED
  BY <1>5, <1>7, <1>8, <1>9

Parts(s, v, w, a, b) ==
  /\ Len(v) = a /\ Len(w) = b
  /\ Len(s) = 3 + a + b /\ s[1] = ">" /\ s[2] = Blank /\ s[3 + a] = Blank
  /\ \A k \in 1..a : s[2 + k] = v[k]
  /\ \A k \in 1..b : s[3 + a + k] = w[k]

LEMMA MessageOfWords ==
  ASSUME NEW v \in Word, NEW w \in Word
  PROVE  \E s \in Seq(Symbol), a \in Nat \ {0}, b \in Nat \ {0} :
           s = Message(v, w) /\ Parts(s, v, w, a, b)
<1>1. v \in Seq(Symbol) /\ w \in Seq(Symbol)
  BY WordIs
<1>2. PICK a \in Nat \ {0}, b \in Nat \ {0} : Len(v) = a /\ Len(w) = b
  BY WordIs
<1>3. a \in Nat /\ b \in Nat
  OBVIOUS
<1>4. PICK s : s = Message(v, w)
  OBVIOUS
<1>5. /\ s \in Seq(Symbol) /\ Len(s) = 3 + a + b
      /\ s[1] = ">" /\ s[2] = Blank /\ s[3 + a] = Blank
      /\ \A k \in 1..a : s[2 + k] = v[k]
      /\ \A k \in 1..b : s[3 + a + k] = w[k]
  BY <1>1, <1>2, <1>3, <1>4, PrivateLine
<1> QED
  BY <1>2, <1>4, <1>5 DEF Parts

\* A piece of a text.
LEMMA Piece ==
  ASSUME NEW S, NEW s \in Seq(S), NEW m \in Nat \ {0}, NEW l \in Nat \ {0},
         m + l - 1 <= Len(s)
  PROVE  /\ SubSeq(s, m, m + l - 1) \in Seq(S) /\ Len(SubSeq(s, m, m + l - 1)) = l
         /\ \A k \in 1..l : SubSeq(s, m, m + l - 1)[k] = s[m + k - 1]
<1>1. PICK n \in Nat : n = Len(s)
  BY LenProperties
<1>2. PICK e \in Nat : e = m + l - 1
  OBVIOUS
<1>3. m \in Int /\ e \in Int /\ m <= e /\ e - m + 1 = l
  BY <1>2
<1>4. \A k \in m..e : s[k] \in S
  <2>1. \A k \in m..e : k \in 1..n
    BY <1>1, <1>2
  <2> QED
    BY <1>1, <2>1, ByMembers
<1>5. SubSeq(s, m, e) \in Seq(S) /\ Len(SubSeq(s, m, e)) = l
  BY <1>3, <1>4, SubSeqProperties
<1>6. \A k \in 1..l : SubSeq(s, m, e)[k] = s[m + k - 1]
  BY <1>3, <1>4, SubSeqProperties
<1> QED
  BY <1>2, <1>5, <1>6

\* What the server makes of it: the name it finds is the second word with a blank behind it.
LEMMA PrivateParts ==
  ASSUME NEW v \in Word, NEW w \in Word
  PROVE  LET s == Message(v, w) IN
         /\ s # <<>> /\ Head(s) = ">" /\ ~TrimDies(NameOf(s)) /\ Trim(NameOf(s)) = v
         /\ MessageOf(s) = w /\ Trim(w) = w
<1>0. PICK s \in Seq(Symbol), a \in Nat \ {0}, b \in Nat \ {0} :
        s = Message(v, w) /\ Parts(s, v, w, a, b)
  BY MessageOfWords
<1> DEFINE I == {k \in 1..Len(s) : s[k] = Blank}
<1>1. Len(v) = a /\ Len(w) = b
  BY <1>0 DEF Parts
<1>2. /\ v \in Seq(Symbol) /\ w \in Seq(Symbol)
      /\ (\A k \in 1..a : v[k] # Blank) /\ (\A k \in 1..b : w[k] # Blank)
  BY <1>1, WordIs
<1>3. /\ s \in Seq(Symbol) /\ Len(s) = 3 + a + b
      /\ s[1] = ">" /\ s[2] = Blank /\ s[3 + a] = Blank
      /\ \A k \in 1..a : s[2 + k] = v[k]
      /\ \A k \in 1..b : s[3 + a + k] = w[k]
  BY <1>0 DEF Parts
<1>4. DOMAIN s = 1..3 + a + b /\ s # <<>>
  <2>1. 3 + a + b # 0
    OBVIOUS
  <2> QED
    BY <1>3, <2>1, ByMembers
<1>5. 1 \in 1..3 + a + b /\ 2 \in 1..3 + a + b /\ 3 + a \in 1..3 + a + b
  OBVIOUS
<1>6. I = {k \in 1..3 + a + b : s[k] = Blank}
  BY <1>3
<1> HIDE DEF I
<1>7. Min(I) = 2
  <2>1. I \in SUBSET Int /\ 2 \in I
    BY <1>3, <1>5, <1>6
  <2>2. 1 \notin I
    BY <1>3, <1>6 DEF Blank
  <2>3. \A k \in 1..3 + a + b : k # 1 => 2 <= k
    OBVIOUS
  <2>4. \A y \in I : 2 <= y
    BY <1>6, <2>2, <2>3
  <2> QED
    BY <2>1, <2>4, MinIs
<1>8. Max(I) = 3 + a
  <2>1. I \in SUBSET Int /\ 3 + a \in I
    BY <1>3, <1>5, <1>6
  <2>2. ASSUME NEW y \in I PROVE y <= 3 + a
    <3>1. y \in 1..3 + a + b /\ s[y] = Blank
      BY <1>6
    <3>2. SUFFICES ASSUME ~(y <= 3 + a) PROVE FALSE
      OBVIOUS
    <3>3. PICK k \in 1..b : y = 3 + a + k
      <4>1. y - 3 - a \in 1..b /\ y = 3 + a + (y - 3 - a)
        BY <3>1, <3>2
      <4> QED
        BY <4>1
    <3> QED
      BY ZenonT(60), <1>2, <1>3, <3>1, <3>3
  <2> QED
    BY <2>1, <2>2, MaxIs
<1>9. I # {} /\ Blank \in Range(s)
  <2>1. 2 \in DOMAIN s /\ s[2] = Blank
    BY <1>3, <1>4, <1>5
  <2> QED
    BY <1>3, <1>5, <1>6, <2>1 DEF Range
<1>10. FirstBlank(s) = 1
  <2>1. SelectInSeq(s, LAMBDA c : c = Blank) = Min(I)
    BY <1>9 DEF SelectInSeq, I
  <2> QED
    BY <1>7, <2>1 DEF FirstBlank
<1>11. LastBlank(s) = a + 2
  <2>1. SelectLastInSeq(s, LAMBDA c : c = Blank) = Max(I)
    BY <1>9 DEF SelectLastInSeq, I
  <2>2. 3 + a - 1 = a + 2
    OBVIOUS
  <2> QED
    BY <1>8, <2>1, <2>2 DEF LastBlank
<1>12. PICK u : u = SubSeq(s, 3, a + 3)
  OBVIOUS
<1>13. NameOf(s) = u
  <2>1. 1 + 1 = 2 /\ a + 2 - 1 = a + 1 /\ 2 + 1 = 3 /\ 2 + (a + 1) = a + 3
    OBVIOUS
  <2>2. Min({a + 3, 3 + a + b}) = a + 3
    <3>1. {a + 3, 3 + a + b} \in SUBSET Int /\ a + 3 \in {a + 3, 3 + a + b}
          /\ a + 3 <= a + 3 /\ a + 3 <= 3 + a + b
      OBVIOUS
    <3>2. \A y \in {a + 3, 3 + a + b} : a + 3 <= y
      BY <3>1
    <3> QED
      BY <3>1, <3>2, MinIs
  <2>3. NameOf(s) = Substr(s, 2, a + 1)
    BY <1>9, <1>10, <1>11, <2>1 DEF NameOf
  <2> QED
    BY <1>3, <1>12, <2>1, <2>2, <2>3 DEF Substr
<1>14. u \in Seq(Symbol) /\ Len(u) = a + 1 /\ \A k \in 1..a + 1 : u[k] = s[2 + k]
  <2>1. PICK m \in Nat \ {0}, l \in Nat \ {0} : m = 3 /\ l = a + 1
    OBVIOUS
  <2>2. m + l - 1 = a + 3 /\ m + l - 1 <= 3 + a + b
    BY <2>1
  <2>3. m + l - 1 <= Len(s)
    BY <1>3, <2>2
  <2>4. SubSeq(s, m, m + l - 1) \in Seq(Symbol) /\ Len(SubSeq(s, m, m + l - 1)) = l
    BY <1>3, <2>3, Piece
  <2>5. \A k \in 1..l : SubSeq(s, m, m + l - 1)[k] = s[m + k - 1]
    BY <1>3, <2>3, Piece
  <2>6. SubSeq(s, m, m + l - 1) = u
    BY <1>12, <2>1, <2>2
  <2>7. \A k \in 1..l : m + k - 1 = 2 + k
    BY <2>1
  <2> QED
    BY ZenonT(60), <2>1, <2>4, <2>5, <2>6, <2>7
<1>15. Trim(u) = v /\ ~TrimDies(u)
  <2>1. \A k \in 1..a : k \in 1..a + 1
    OBVIOUS
  <2>2. \A k \in 1..a : u[k] = v[k]
    BY <1>3, <1>14, <2>1
  <2>3. \A k \in a + 1..a + 1 : k = a + 1 /\ k \in 1..a + 1 /\ 2 + k = 3 + a
    OBVIOUS
  <2>4. \A k \in a + 1..a + 1 : u[k] = Blank
    BY <1>3, <1>14, <2>3
  <2>5. a <= a + 1
    OBVIOUS
  <2>6. Len(v) <= Len(u) /\ (\A k \in 1..Len(v) : u[k] = v[k])
        /\ \A k \in Len(v) + 1..Len(u) : u[k] = Blank
    BY <1>1, <1>14, <2>2, <2>4, <2>5
  <2> QED
    BY <1>14, <2>6, TrimWord
<1>16. MessageOf(s) = SubSeq(s, a + 4, 3 + a + b)
  <2>1. a + 2 + 1 = a + 3 /\ a + 3 + 1 = a + 4
    OBVIOUS
  <2>2. Min({a + 3 + (3 + a + b), 3 + a + b}) = 3 + a + b
    <3>1. {a + 3 + (3 + a + b), 3 + a + b} \in SUBSET Int /\ 3 + a + b \in {a + 3 + (3 + a + b), 3 + a + b}
          /\ 3 + a + b <= a + 3 + (3 + a + b) /\ 3 + a + b <= 3 + a + b
      OBVIOUS
    <3>2. \A y \in {a + 3 + (3 + a + b), 3 + a + b} : 3 + a + b <= y
      BY <3>1
    <3> QED
      BY <3>1, <3>2, MinIs
  <2>3. MessageOf(s) = Substr(s, a + 3, 3 + a + b)
    BY <1>3, <1>9, <1>11, <2>1 DEF MessageOf
  <2> QED
    BY <1>3, <2>1, <2>2, <2>3 DEF Substr
<1>17. SubSeq(s, a + 4, 3 + a + b) = w
  <2>1. PICK m \in Nat \ {0} : m = a + 4
    OBVIOUS
  <2>2. m + b - 1 = 3 + a + b
    BY <2>1
  <2>3. m + b - 1 <= Len(s)
    BY <1>3, <2>2
  <2>4. SubSeq(s, m, m + b - 1) \in Seq(Symbol) /\ Len(SubSeq(s, m, m + b - 1)) = b
    BY <1>3, <2>3, Piece
  <2>5. \A k \in 1..b : SubSeq(s, m, m + b - 1)[k] = s[m + k - 1]
    BY <1>3, <2>3, Piece
  <2>6. \A k \in 1..b : m + k - 1 = 3 + a + k
    BY <2>1
  <2>7. \A k \in 1..b : SubSeq(s, m, m + b - 1)[k] = w[k]
    BY <1>3, <2>5, <2>6
  <2>8. SubSeq(s, m, m + b - 1) = w
    BY <1>1, <1>2, <2>4, <2>7, SeqEqual
  <2> QED
    BY <2>1, <2>2, <2>8
<1>18. Trim(w) = w
  <2>1. Len(w) <= Len(w) /\ \A k \in Len(w) + 1..Len(w) : w[k] = Blank
    BY <1>1
  <2> QED
    BY <1>2, <2>1, TrimWord
<1>19. Head(s) = ">"
  BY <1>3, <1>4
<1> QED
  BY <1>0, <1>4, <1>13, <1>15, <1>16, <1>17, <1>18, <1>19

\* What the server has made of a private message of one word, on its way to the receiver and
\* where it ends.
WordThrough ==
  LET ws == Words(Meant) IN
  /\ stage \in Ends \union {"private"} /\ Len(ws) = 3 /\ ws[1] = <<">">> /\ ws[2] \in Online
  /\ Meant = ws[1] \o <<Blank>> \o ws[2] \o <<Blank>> \o ws[3]
  => /\ text = ws[3] /\ ~NoName(Meant) /\ Head(Meant) = ">" /\ Meant # <<>>
     /\ to = {ws[2]} \/ (Len(ws[3]) % Granule = 0 /\ to = Online \intersect {<<>>})

\* Where a private message comes to is told by its words.
LEMMA PrivateStep ==
  ASSUME TextOK, TextOK', RouteByFirst', WordThrough, [Next]_vars
  PROVE  WordThrough'
<1>1. SUFFICES ASSUME UNCHANGED typed, Meant' = Meant, stage' \in Ends \union {"private"},
                      NEW ws, ws = Words(Meant), Len(ws) = 3, ws[1] = <<">">>, ws[2] \in Online,
                      Meant = ws[1] \o <<Blank>> \o ws[2] \o <<Blank>> \o ws[3]
               PROVE  /\ text' = ws[3] /\ ~NoName(Meant) /\ Head(Meant) = ">" /\ Meant # <<>>
                      /\ \/ to' = {ws[2]}
                         \/ Len(ws[3]) % Granule = 0 /\ to' = Online \intersect {<<>>}
  <2>1. UNCHANGED typed
    BY DEF Next, ChildTrim, ChildRoute, ParentRoute, ServerRoute, Private, ShowChat, ShowPrivate, Goto, vars
  <2>2. Meant' = Meant /\ (NoName(Meant)' <=> NoName(Meant))
    BY <2>1, MeantStays
  <2>3. Words(Meant)' = Words(Meant) /\ Head(Meant)' = Head(Meant)
    BY <2>2
  <2> QED
    BY <2>1, <2>2, <2>3 DEF WordThrough
<1>2. ws[2] \in Word /\ ws[3] \in Word
  <2>1. Meant \in Seq(Symbol)
    BY TrimMeant DEF TextOK
  <2>2. ws \in Seq(Word)
    BY <1>1, <2>1, WordsAre
  <2>3. 2 \in 1..3 /\ 3 \in 1..3
    OBVIOUS
  <2> QED
    BY <1>1, <2>2, <2>3, ByMembers
<1>3. PICK v \in Word, w \in Word : v = ws[2] /\ w = ws[3]
  BY <1>2
<1>4. Meant = Message(v, w)
  BY <1>1, <1>3 DEF Message
<1>5. /\ Head(Meant) = ">" /\ ~TrimDies(NameOf(Meant)) /\ Trim(NameOf(Meant)) = v
      /\ MessageOf(Meant) = w /\ Trim(w) = w /\ Meant # <<>>
  BY <1>4, PrivateParts
<1>6. ~NoName(Meant)
  <2>1. Meant \in Seq(Symbol)
    BY TrimMeant DEF TextOK
  <2> QED
    BY <1>5, <2>1, NamelessIs
<1>7. CASE ServerRoute
  <2>1. stage = "server" /\ text = Meant
    BY <1>7 DEF ServerRoute, TextOK
  <2>2. Private
    BY <1>5, <1>7, <2>1 DEF ServerRoute
  <2>3. /\ text' = w
        /\ \E read \in NameRead(v, w) : to' = {n \in Online : n = read}
    BY <1>5, <2>1, <2>2 DEF Private, Goto
  <2>4. PICK read \in NameRead(v, w) : to' = {n \in Online : n = read}
    BY <2>3
  <2>5. read = v \/ (Len(w) % Granule = 0 /\ read = <<>>)
    BY <2>4 DEF NameRead
  <2>6. read = v => to' = {v}
    BY ZenonT(60), <1>1, <1>3, <2>4
  <2>7. read = <<>> => to' = Online \intersect {<<>>}
    BY ZenonT(60), <2>4
  <2> QED
    BY <1>3, <1>5, <1>6, <2>3, <2>5, <2>6, <2>7
<1>8. CASE ShowPrivate \/ UNCHANGED vars
  <2>1. stage \in Ends \union {"private"} /\ UNCHANGED <<text, to>>
    BY <1>1, <1>8 DEF ShowPrivate, vars
  <2> QED
    BY <1>1, <1>5, <1>6, <2>1 DEF WordThrough
<1>9. CASE ChildTrim \/ ChildRoute \/ ParentRoute \/ ShowChat
  <2>1. stage' \notin {"killed", "unsent", "shown", "withheld", "private"}
    BY <1>9 DEF ChildTrim, ChildRoute, ParentRoute, ShowChat, Goto
  <2>2. stage' \in {"killed", "unsent", "shown", "withheld", "private"}
    <3>1. Head(Meant)' = Head(Meant)
      BY <1>1
    <3> QED
      BY <1>1, <1>5, <3>1 DEF RouteByFirst
  <2> QED
    BY <2>1, <2>2
<1> QED
  BY <1>7, <1>8, <1>9 DEF Next

-----------------------------------------------------------------------------
(* The blocked.                                                            *)

\* Until the parent has the line, the sender has blocked whom it had blocked before.
BlockedOK == blocked \in SUBSET Seq(Symbol) \/ stage \notin {"typed", "trimmed", "pipe"}

LEMMA BlockedInit ==
  ASSUME Init
  PROVE  BlockedOK
<1>1. STRING \subseteq Symbol
  BY DEF Symbol
<1>2. Online \subseteq Seq(Symbol)
  <2>1. \A s \in Seq(STRING) : s \in Seq(Symbol)
    BY <1>1, SeqIn
  <2> QED
    BY <2>1, CommandsAssumption
<1> QED
  BY <1>2 DEF Init, BlockedOK

LEMMA BlockedStep ==
  ASSUME BlockedOK, [Next]_vars
  PROVE  BlockedOK'
<1>1. CASE ChildTrim \/ ChildRoute
  BY <1>1 DEF BlockedOK, ChildTrim, ChildRoute
<1>2. CASE ParentRoute
  BY <1>2 DEF BlockedOK, ParentRoute, Goto
<1>3. CASE ServerRoute
  BY <1>3 DEF BlockedOK, ServerRoute, Private, Goto
<1>4. CASE ShowChat \/ ShowPrivate
  BY <1>4 DEF BlockedOK, ShowChat, ShowPrivate, Goto
<1>5. CASE UNCHANGED vars
  BY <1>5 DEF BlockedOK, vars
<1> QED
  BY <1>1, <1>2, <1>3, <1>4, <1>5 DEF Next

\* The last mention of a name decides.
LEMMA BlockStep ==
  ASSUME TextOK, BlockedOK, BlockAsTold, [Next]_vars
  PROVE  BlockAsTold'
<1>1. SUFFICES ASSUME UNCHANGED typed, Meant' = Meant, stage' = "blocked",
                      NEW n \in Online \ {<<>>}, Mentions(n) # {}, Head(n) # "!"
               PROVE  n \in blocked' <=> Words(Meant)[Max(Mentions(n))] = n
  <2>1. UNCHANGED typed
    BY DEF Next, ChildTrim, ChildRoute, ParentRoute, ServerRoute, Private, ShowChat, ShowPrivate, Goto, vars
  <2>2. Meant' = Meant
    BY <2>1, MeantStays
  <2>3. \A n : Mentions(n)' = Mentions(n)
    BY <2>2 DEF Mentions
  <2> QED
    BY <2>1, <2>2, <2>3 DEF BlockAsTold
<1>2. CASE ParentRoute
  <2>1. stage = "pipe" /\ text = Meant /\ blocked \in SUBSET Seq(Symbol)
    BY <1>2 DEF ParentRoute, TextOK, BlockedOK
  <2>2. blocked' = BlockFold(Meant, blocked)
    BY <1>1, <1>2, <2>1 DEF ParentRoute, Goto
  <2>3. Meant \in Seq(Symbol)
    BY TrimMeant DEF TextOK
  <2>4. n \in Seq(Symbol) /\ n # <<>>
    <3>1. STRING \subseteq Symbol
      BY DEF Symbol
    <3>2. n \in Seq(STRING)
      BY CommandsAssumption
    <3> QED
      BY <3>1, <3>2, SeqIn
  <2> QED
    BY <1>1, <2>1, <2>2, <2>3, <2>4, LastMention DEF Mentions
<1>3. CASE UNCHANGED vars
  BY <1>1, <1>3 DEF BlockAsTold, vars
<1> QED
  BY <1>1, <1>2, <1>3 DEF Next, ChildTrim, ChildRoute, ServerRoute, Private, ShowChat, ShowPrivate, Goto

-----------------------------------------------------------------------------
(* Theorems.                                                               *)

LineInv == TextOK /\ BlockedOK /\ RouteByFirst /\ FilterExact /\ WordThrough /\ BlockAsTold

LEMMA LineInvInit ==
  ASSUME Init
  PROVE  LineInv
<1>1. stage = "typed"
  BY DEF Init
<1>2. RouteByFirst /\ FilterExact /\ WordThrough /\ BlockAsTold
  BY <1>1 DEF RouteByFirst, FilterExact, WordThrough, BlockAsTold, Ends
<1> QED
  BY <1>2, TextInit, BlockedInit DEF LineInv

LEMMA LineInvariant == Spec => []LineInv
<1>1. Init => LineInv
  BY LineInvInit
<1>2. LineInv /\ [Next]_vars => LineInv'
  <2> SUFFICES ASSUME LineInv, [Next]_vars PROVE LineInv'
    OBVIOUS
  <2>1. TextOK' /\ BlockedOK'
    BY TextStep, BlockedStep DEF LineInv
  <2>2. RouteByFirst' /\ FilterExact'
    BY RouteStep, FilterStep DEF LineInv
  <2>3. WordThrough'
    BY <2>1, <2>2, PrivateStep DEF LineInv
  <2>4. BlockAsTold'
    BY BlockStep DEF LineInv
  <2> QED
    BY <2>1, <2>2, <2>3, <2>4 DEF LineInv
<1> QED
  BY <1>1, <1>2, PTL DEF Spec

\* Whatever is typed, its first symbol that is no blank decides where the line ends: the
\* commands of the client never leave it, a private message is never broadcast, and it ends the
\* server if and only if its name is blanks alone.
THEOREM FirstSymbolDecides == Spec => []RouteByFirst
<1>1. LineInv => RouteByFirst
  BY DEF LineInv
<1> QED
  BY <1>1, LineInvariant, PTL

\* A chat line comes through the child's trim, the pipe and the server to the others as it was
\* typed, with the blanks at its end, whatever is in it.
THEOREM ChatComesThrough == Spec => []ChatVerbatim
<1>1. LineInv => ChatVerbatim
  BY DEF LineInv, TextOK, ChatVerbatim
<1> QED
  BY <1>1, LineInvariant, PTL

\* A client hides the lines of just those it has blocked, whatever is in a line, as long as
\* the sender's nickname has no "]" in it.
THEOREM HidesTheBlocked == Spec => []FilterExact
<1>1. LineInv => FilterExact
  BY DEF LineInv
<1> QED
  BY <1>1, LineInvariant, PTL

\* A private message of one word goes to the user it names and to no other, as it was typed,
\* whatever the names and the word are, unless the word fills its array: then it may go to
\* those without a nickname instead.
THEOREM PrivateReachesNamed == Spec => []PrivateWord
<1>1. LineInv => PrivateWord
  BY DEF LineInv, PrivateWord, WordThrough, RouteByFirst
<1> QED
  BY <1>1, LineInvariant, PTL

\* Of the names of a line of blocking, however many and however often mentioned, just those are
\* blocked afterwards whose last mention is without "!".
THEOREM LastMentionDecides == Spec => []BlockAsTold
<1>1. LineInv => BlockAsTold
  BY DEF LineInv
<1> QED
  BY <1>1, LineInvariant, PTL
=============================================================================
