------------------------ MODULE LanguageServerProofs ------------------------
(***************************************************************************)
(* What the language server publishes and answers, whatever the clients     *)
(* send and in whatever order the tasks get their turns.                    *)
(***************************************************************************)
EXTENDS LanguageServer, SequenceTheorems, WellFoundedInduction, TLAPS

-----------------------------------------------------------------------------
(* Numbers.  (The least-number principle of the library takes an operator.) *)

LEMMA LeastExists ==
    ASSUME NEW S \in SUBSET Nat, S # {}
    PROVE  \E n \in S : \A m \in S : n <= m
<1> DEFINE R == OpToRel(<, Nat)
<1>1. IsWellFoundedOn(R, Nat)
  BY NatLessThanWellFounded
<1>2. PICK n \in S : \A m \in S : ~ (<<m, n>> \in R)
  <2> HIDE DEF R
  <2> QED  BY <1>1, WFMin
<1>3. \A m \in S : ~ (m < n)
  BY <1>2 DEF OpToRel
<1> QED  BY <1>3

LEMMA GreatestExists ==
    ASSUME NEW n \in Nat, NEW S \in SUBSET (1..n), S # {}
    PROVE  \E m \in S : \A k \in S : k <= m
<1> DEFINE D == {n - k : k \in S}
<1>1. D \in SUBSET Nat /\ D # {}
  <2>1. PICK k \in S : TRUE
    OBVIOUS
  <2>2. n - k \in D
    BY <2>1
  <2>3. \A j \in S : n - j \in Nat
    OBVIOUS
  <2> QED  BY <2>2, <2>3
<1>2. PICK d \in D : \A e \in D : d <= e
  <2> HIDE DEF D
  <2> QED  BY <1>1, LeastExists
<1>3. PICK m \in S : d = n - m
  BY <1>2
<1>4. \A k \in S : n - m <= n - k
  BY <1>2, <1>3
<1> QED  BY <1>4

-----------------------------------------------------------------------------
(* The diagnostics that were found so far only become more.                 *)

LEMMA TotalsDef ==
    ASSUME NEW parts \in Seq(Nat)
    PROVE  /\ Totals(parts) \in [0..Len(parts) -> Nat]
           /\ \A i \in 1..Len(parts) :
                 Totals(parts)[i] = Totals(parts)[i - 1] + parts[i]
<1> DEFINE L == Len(parts)
           Sums(f, n) == /\ f \in [0..n -> Nat]
                         /\ \A i \in 0..n : f[i] = IF i = 0 THEN 0 ELSE f[i - 1] + parts[i]
           Bad == {n \in 0..L : ~ \E f : Sums(f, n)}
<1>1. L \in Nat /\ \A i \in 1..L : parts[i] \in Nat
  OBVIOUS
<1>2. Bad = {}
  <2> SUFFICES ASSUME Bad # {} PROVE FALSE
    OBVIOUS
  <2>0. Bad \in SUBSET Nat
    BY <1>1
  <2>1. PICK n \in Bad : \A m \in Bad : n <= m
    <3> HIDE DEF Bad
    <3> QED  BY <2>0, LeastExists
  <2>2. n \in 0..L /\ ~ \E f : Sums(f, n)
    BY <2>1
  <2>3. CASE n = 0
    <3>1. Sums([i \in 0..0 |-> 0], 0)
      OBVIOUS
    <3> QED  BY <3>1, <2>2, <2>3
  <2>4. CASE n # 0
    <3>1. n \in Nat /\ n - 1 \in 0..L
      BY <2>2, <2>4, <1>1
    <3>0. n - 1 \notin Bad
      <4> HIDE DEF Bad
      <4> QED  BY <2>1, <3>1
    <3>2. PICK f : Sums(f, n - 1)
      BY <3>0, <3>1
    <3> DEFINE g == [i \in 0..n |-> IF i = n THEN f[n - 1] + parts[n] ELSE f[i]]
    <3>3. f[n - 1] \in Nat /\ parts[n] \in Nat
      BY <3>2, <2>2, <2>4, <1>1
    <3>4. g \in [0..n -> Nat]
      BY <3>2, <3>3, <2>2
    <3>5. \A i \in 0..n : g[i] = IF i = 0 THEN 0 ELSE g[i - 1] + parts[i]
      BY <3>2, <2>2, <2>4
    <3>6. Sums(g, n)
      BY <3>4, <3>5
    <3> QED  BY <3>6, <2>2
  <2> QED  BY <2>3, <2>4
<1>3. PICK f : Sums(f, L)
  <2>1. L \in 0..L
    BY <1>1
  <2>2. L \notin Bad
    <3> HIDE DEF Bad
    <3> QED  BY <1>2
  <2> QED  BY <2>1, <2>2
<1> DEFINE Rule(h) == [i \in 0..L |-> IF i = 0 THEN 0 ELSE h[i - 1] + parts[i]]
<1>4. f = Rule(f)
  BY <1>3
<1>5. Totals(parts) = CHOOSE h : h = Rule(h)
  BY DEF Totals
<1>6. Totals(parts) = Rule(Totals(parts))
  <2> HIDE DEF Rule
  <2> QED  BY <1>4, <1>5
<1>7. \A i \in 0..L : Totals(parts)[i] = IF i = 0 THEN 0 ELSE Totals(parts)[i - 1] + parts[i]
  BY <1>6
<1>8. DOMAIN Totals(parts) = 0..L
  BY <1>6
<1> DEFINE Off == {i \in 0..L : Totals(parts)[i] \notin Nat}
<1>9. Off = {}
  <2> SUFFICES ASSUME Off # {} PROVE FALSE
    OBVIOUS
  <2>0. Off \in SUBSET Nat
    BY <1>1
  <2>1. PICK n \in Off : \A m \in Off : n <= m
    <3> HIDE DEF Off
    <3> QED  BY <2>0, LeastExists
  <2>2. n \in 0..L /\ Totals(parts)[n] \notin Nat
    BY <2>1
  <2>3. n # 0
    BY <2>2, <1>7
  <2>4. n - 1 \in 0..L /\ Totals(parts)[n - 1] \in Nat
    BY <2>1, <2>2, <2>3, <1>1
  <2>5. Totals(parts)[n] = Totals(parts)[n - 1] + parts[n] /\ parts[n] \in Nat
    BY <2>2, <2>3, <1>1, <1>7
  <2> QED  BY <2>2, <2>4, <2>5
<1>10. \A i \in 0..L : Totals(parts)[i] \in Nat
  BY <1>9
<1>11. Totals(parts) = [i \in 0..L |-> Totals(parts)[i]]
  <2> HIDE DEF Rule
  <2>1. \A h : Rule(h) = [i \in 0..L |-> Rule(h)[i]]
    BY DEF Rule
  <2> QED  BY <2>1, <1>6
<1>12. Totals(parts) \in [0..L -> Nat]
  BY <1>10, <1>11
<1>13. \A i \in 1..L : i \in 0..L /\ i # 0
  BY <1>1
<1> QED  BY <1>7, <1>12, <1>13

LEMMA YieldsGrow ==
    ASSUME NEW u \in Uri, NEW text \in Text
    PROVE  /\ Yields(u, text) \in Seq(Nat)
           /\ \A i \in 1..Len(Yields(u, text)) \ {1} :
                 Yields(u, text)[i - 1] <= Yields(u, text)[i]
<1> DEFINE parts == text.parts
           soFar == [i \in 1..Len(parts) |-> Totals(parts)[i]]
<1>1. parts \in Seq(Nat) /\ Len(parts) \in Nat \ {0}
  BY ServerAssumption, EmptySeq DEF ServerAssumption
<1>2. /\ Totals(parts) \in [0..Len(parts) -> Nat]
      /\ \A i \in 1..Len(parts) : Totals(parts)[i] = Totals(parts)[i - 1] + parts[i]
  BY <1>1, TotalsDef
<1>3. soFar \in Seq(Nat) /\ Len(soFar) = Len(parts)
  <2>1. soFar \in [1..Len(parts) -> Nat] /\ DOMAIN soFar = 1..Len(parts)
    BY <1>1, <1>2
  <2>2. soFar \in Seq(Nat)
    <3> HIDE DEF soFar, parts
    <3> QED  BY <2>1, <1>1, SeqDef
  <2>3. Len(soFar) \in Nat /\ DOMAIN soFar = 1..Len(soFar)
    <3> HIDE DEF soFar, parts
    <3> QED  BY <2>2, LenProperties
  <2> QED  BY <2>1, <2>3, <1>1
<1>4. \A i \in 1..Len(parts) \ {1} : soFar[i - 1] <= soFar[i]
  <2> SUFFICES ASSUME NEW i \in 1..Len(parts) \ {1} PROVE soFar[i - 1] <= soFar[i]
    OBVIOUS
  <2>1. i - 1 \in 1..Len(parts) /\ i - 1 \in 0..Len(parts) /\ parts[i] \in Nat
    BY <1>1
  <2> QED  BY <2>1, <1>2
<1> HIDE DEF soFar
<1>5. Last(soFar) \in Nat
  BY <1>1, <1>3 DEF Last
<1>6. /\ <<Last(soFar)>> \in Seq(Nat) /\ Len(<<Last(soFar)>>) = 1
  BY <1>5
<1>7. /\ Front(soFar) \in Seq(Nat) /\ Len(Front(soFar)) = Len(parts) - 1
      /\ \A i \in 1..(Len(parts) - 1) : Front(soFar)[i] = soFar[i]
  BY <1>1, <1>3 DEF Front
<1>8. Yields(u, text) = IF u \in Linted THEN <<Last(soFar)>>
                        ELSE IF Last(parts) # 0 \/ Last(soFar) = 0 THEN soFar
                        ELSE Front(soFar)
  BY DEF Yields, soFar
<1> HIDE DEF parts
<1>9. CASE u \in Linted
  BY <1>6, <1>8, <1>9
<1>10. CASE u \notin Linted /\ (Last(parts) # 0 \/ Last(soFar) = 0)
  BY <1>3, <1>4, <1>8, <1>10
<1>11. CASE u \notin Linted /\ ~ (Last(parts) # 0 \/ Last(soFar) = 0)
  <2>1. Yields(u, text) = Front(soFar)
    BY <1>8, <1>11
  <2>2. \A i \in 1..(Len(parts) - 1) \ {1} :
           /\ i \in 1..Len(parts) \ {1} /\ i \in 1..(Len(parts) - 1)
           /\ i - 1 \in 1..(Len(parts) - 1)
    BY <1>1
  <2> QED  BY <2>1, <2>2, <1>4, <1>7
<1> QED  BY <1>9, <1>10, <1>11

-----------------------------------------------------------------------------
(* The queue.                                                               *)

LEMMA NextTasks ==
    ASSUME NEW S, NEW q \in Seq(S), q # <<>>
    PROVE  /\ Head(q) = q[1] /\ q[1] \in S /\ Len(q) \in Nat \ {0}
           /\ Tail(q) \in Seq(S)
           /\ Len(Tail(q)) = Len(q) - 1
           /\ \A i \in 1..(Len(q) - 1) : Tail(q)[i] = q[i + 1]
BY HeadTailProperties, EmptySeq, ElementOfSeq

LEMMA Rotated ==
    ASSUME NEW S, NEW q \in Seq(S), q # <<>>, NEW t \in S
    PROVE  /\ Append(Tail(q), t) \in Seq(S)
           /\ Len(Append(Tail(q), t)) = Len(q)
           /\ \A i \in 1..(Len(q) - 1) : Append(Tail(q), t)[i] = q[i + 1]
           /\ Append(Tail(q), t)[Len(q)] = t
<1>1. /\ Tail(q) \in Seq(S) /\ Len(q) \in Nat \ {0}
      /\ Len(Tail(q)) = Len(q) - 1
      /\ \A i \in 1..(Len(q) - 1) : Tail(q)[i] = q[i + 1]
  BY NextTasks
<1>2. /\ Append(Tail(q), t) \in Seq(S)
      /\ Len(Append(Tail(q), t)) = Len(Tail(q)) + 1
      /\ \A i \in 1..Len(Tail(q)) : Append(Tail(q), t)[i] = Tail(q)[i]
      /\ Append(Tail(q), t)[Len(Tail(q)) + 1] = t
  BY <1>1, AppendProperties
<1> QED  BY <1>1, <1>2

-----------------------------------------------------------------------------
(* The invariant.                                                           *)

Tasks ==
    [kind : {"initialize"}]
    \cup [kind : {"apt"}, at : Nat, cancelled : BOOLEAN]
    \cup [kind : {"diagnose"}, uri : Uri, version : 1..MaxMessages,
          text : Text \cup {NoText}, at : Nat, last : Int]

Docs == [Uri -> [open : BOOLEAN, version : 0..MaxMessages, text : Text]]
Histories == [Uri -> [1..MaxMessages -> SUBSET Text]]
Publications == [Uri -> [version : 0..MaxMessages, text : Text \cup {NoText}, count : Nat]]

TypeInv ==
    /\ doc \in Docs
    /\ messages \in 0..MaxMessages
    /\ contents \in Histories
    /\ table \in [Uri -> 0..MaxMessages]
    /\ ready \in Seq(Tasks)
    /\ shown \in Publications
    /\ aptState \in {"not-loaded", "loading", "loaded", "failed", "tooling-not-available"}
    /\ packages \subseteq Range(Index)
    /\ down \in BOOLEAN

\* Task i has not begun, or it is between two of its lists.
Starting(i, u) ==
    ready[i].kind = "diagnose" /\ ready[i].uri = u /\ ready[i].at = 0
Scanning(i, u) ==
    ready[i].kind = "diagnose" /\ ready[i].uri = u /\ ready[i].at > 0

\* What a task that begins now would read, and the versions it can be of.
TextOf(u) == IF doc[u].open THEN doc[u].text ELSE DiskText[u]
DocInv ==
    \A u \in Uri :
        /\ doc[u].version <= messages
        /\ doc[u].open => doc[u].version > 0
        /\ doc[u].version > 0 => TextOf(u) \in contents[u][doc[u].version]

\* The last task that has not begun is that of the last message.
LatestInv ==
    \A u \in Uri : \A i \in 1..Len(ready) :
        /\ Starting(i, u)
        /\ \A k \in (i + 1)..Len(ready) : ~ Starting(k, u)
        => ready[i].version = doc[u].version

\* A task is at one of its lists, and remembers the length of the one before.
AtInv ==
    \A u \in Uri : \A i \in 1..Len(ready) :
        /\ Starting(i, u) => ready[i].last = -1
        /\ Scanning(i, u) =>
              LET yields == Yields(u, ready[i].text)
              IN  /\ ready[i].text \in Text
                  /\ ready[i].at \in 1..Len(yields)
                  /\ ready[i].last = IF ready[i].at = 1 THEN -1 ELSE yields[ready[i].at - 1]

\* The text a task has read is of its version, or else there is another version
\* in the table when the task has its turn: that of the last of those which
\* begin before, or the one that is there.
Superseded(i, u) ==
    \/ /\ table[u] # ready[i].version
       /\ \A k \in 1..(i - 1) : ~ Starting(k, u)
    \/ \E j \in 1..(i - 1) :
       /\ Starting(j, u) /\ ready[j].version # ready[i].version
       /\ \A k \in (j + 1)..(i - 1) : ~ Starting(k, u)
TextInv ==
    \A u \in Uri : \A i \in 1..Len(ready) :
        Scanning(i, u) =>
            \/ ready[i].text \in contents[u][ready[i].version]
            \/ Superseded(i, u)

\* Nothing is published for a version before the first.
ShownInv == \A u \in Uri : shown[u] # Nothing => shown[u].version > 0

ServerInv ==
    /\ TypeInv /\ DocInv /\ LatestInv /\ AtInv /\ TextInv
    /\ ShownInv /\ PublishedMatchesVersion

\* If versions count on, tasks begin in the order of their versions, each is
\* the only one of its version, and what was shown is what the one in the table
\* has published last.
OrderInv ==
    \A u \in Uri :
        /\ table[u] <= doc[u].version
        /\ shown[u].version <= table[u]
        /\ \A i \in 1..Len(ready) :
              /\ Starting(i, u) => /\ table[u] < ready[i].version
                                  /\ ready[i].version <= doc[u].version
              /\ Scanning(i, u) => ready[i].version <= table[u]
              /\ Scanning(i, u) /\ ready[i].version = table[u] =>
                    IF ready[i].last = -1 THEN shown[u].version < table[u]
                    ELSE shown[u] = [version |-> table[u], text |-> ready[i].text,
                                     count |-> ready[i].last]
        /\ \A i, j \in 1..Len(ready) : i < j =>
              /\ Starting(i, u) /\ Starting(j, u) => ready[i].version < ready[j].version
              /\ Scanning(i, u) /\ Scanning(j, u) => ready[i].version # ready[j].version

\* The packages that were indexed are the newest of those before the one at
\* which the task is.
NewestOf(n) ==
    {Index[i] : i \in {i \in 1..n :
        \A j \in 1..n : Index[j].name = Index[i].name =>
            \/ Index[j].version < Index[i].version
            \/ Index[j].version = Index[i].version /\ j <= i}}
IndexInv ==
    /\ aptState = "loaded" => lookups = Lookups(Newest)
    /\ \A i \in 1..Len(ready) :
          /\ ready[i].kind = "initialize" => packages = {}
          /\ ready[i].kind = "apt" =>
                /\ ready[i].at \in 0..Len(Index)
                /\ packages = NewestOf(IF ready[i].at = 0 THEN 0 ELSE ready[i].at - 1)
    /\ \A i, j \in 1..Len(ready) :
          ready[i].kind # "diagnose" /\ ready[j].kind # "diagnose" => i = j

-----------------------------------------------------------------------------
(* Types.                                                                   *)

ScanTasks ==
    [kind : {"diagnose"}, uri : Uri, version : 1..MaxMessages,
     text : Text \cup {NoText}, at : Nat, last : Int]

LEMMA TasksByKind ==
    ASSUME NEW t \in Tasks
    PROVE  /\ t.kind \in {"initialize", "apt", "diagnose"}
           /\ t.kind = "diagnose" => t \in ScanTasks
           /\ t.kind = "apt" => t \in [kind : {"apt"}, at : Nat, cancelled : BOOLEAN]
BY DEF Tasks, ScanTasks

LEMMA TaskType ==
    ASSUME TypeInv, ready # <<>>
    PROVE  /\ Task = ready[1] /\ Task \in Tasks
           /\ Len(ready) \in Nat \ {0}
           /\ Tail(ready) \in Seq(Tasks)
<1>1. ready \in Seq(Tasks)
  BY DEF TypeInv
<1> QED  BY <1>1, NextTasks DEF Task

LEMMA InitTypes == Init => TypeInv
<1> SUFFICES ASSUME Init PROVE TypeInv
  OBVIOUS
<1>1. [kind |-> "initialize"] \in Tasks
  BY DEF Tasks
<1>2. ready \in Seq(Tasks)
  BY <1>1 DEF Init
<1>3. \A u \in Uri : DiskText[u] \in Text
  BY ServerAssumption DEF ServerAssumption
<1>4. shown \in Publications
  BY ServerAssumption DEF Init, Nothing, ServerAssumption, Publications
<1>5. contents \in Histories
  BY DEF Init, Histories
<1>6. doc \in Docs
  BY <1>3, ServerAssumption DEF Init, ServerAssumption, Docs
<1>7. messages \in 0..MaxMessages /\ table \in [Uri -> 0..MaxMessages]
  BY ServerAssumption DEF Init, ServerAssumption
<1>8. /\ aptState = "not-loaded" /\ packages = {} /\ down = FALSE
  BY DEF Init
<1> QED  BY <1>2, <1>4, <1>5, <1>6, <1>7, <1>8 DEF TypeInv

\* What a document was is noted under its version.
LEMMA Noted ==
    ASSUME TypeInv, NEW u \in Uri, NEW version \in 1..MaxMessages, NEW text \in Text,
           contents' = [contents EXCEPT ![u][version] = @ \cup {text}]
    PROVE  /\ contents' \in Histories
           /\ text \in contents'[u][version]
           /\ \A v \in Uri, w \in 1..MaxMessages : contents[v][w] \subseteq contents'[v][w]
<1>1. contents \in [Uri -> [1..MaxMessages -> SUBSET Text]]
  BY DEF TypeInv, Histories
<1>2. DOMAIN contents[u] = 1..MaxMessages /\ DOMAIN contents = Uri
  BY <1>1
<1>3. contents'[u][version] = contents[u][version] \cup {text}
  BY <1>2
<1>4. ASSUME NEW v \in Uri, NEW w \in 1..MaxMessages
      PROVE  /\ contents[v][w] \subseteq contents'[v][w]
             /\ contents'[v][w] \in SUBSET Text
  <2>1. contents[v][w] \in SUBSET Text
    BY <1>1
  <2>2. contents'[v][w] \in {contents[v][w], contents[v][w] \cup {text}}
    BY <1>2
  <2>3. CASE v = u /\ w = version
    BY <1>3, <2>1, <2>3
  <2>4. CASE ~ (v = u /\ w = version)
    <3>1. contents'[v][w] = contents[v][w]
      BY <1>2, <2>4
    <3> QED  BY <3>1, <2>1
  <2> QED  BY <2>3, <2>4
<1>5. /\ contents' = [v \in Uri |-> contents'[v]]
      /\ \A v \in Uri : contents'[v] = [w \in 1..MaxMessages |-> contents'[v][w]]
  <2>1. DOMAIN contents' = Uri /\ contents' = [v \in DOMAIN contents' |-> contents'[v]]
    BY <1>2
  <2>2. ASSUME NEW v \in Uri  PROVE contents'[v] = [w \in 1..MaxMessages |-> contents'[v][w]]
    <3>1. contents[v] = [w \in 1..MaxMessages |-> contents[v][w]]
      BY <1>1
    <3>2. CASE v = u
      BY <1>2, <3>1, <3>2
    <3>3. CASE v # u
      BY <1>2, <3>1, <3>3
    <3> QED  BY <3>2, <3>3
  <2> QED  BY <2>1, <2>2
<1>6. contents' \in Histories
  <2>1. \A v \in Uri : contents'[v] \in [1..MaxMessages -> SUBSET Text]
    BY <1>4, <1>5
  <2> QED  BY <1>5, <2>1 DEF Histories
<1> QED  BY <1>3, <1>4, <1>6

LEMMA MessageLeaves ==
    ASSUME TypeInv, Message
    PROVE  /\ messages' \in 0..MaxMessages /\ messages' = messages + 1
           /\ table' = table /\ shown' = shown /\ down' = down
           /\ aptState' = aptState /\ packages' = packages /\ lookups' = lookups
BY ServerAssumption DEF TypeInv, Message, apt, ServerAssumption

\* A message adds a task that has not begun.
LEMMA ReceivedTypes ==
    ASSUME TypeInv, Message, NEW u \in Uri, NEW text \in Text,
           NEW version \in 1..MaxMessages, Received(u, version, text)
    PROVE  TypeInv'
<1> DEFINE t == [kind |-> "diagnose", uri |-> u, version |-> version,
                 text |-> NoText, at |-> 0, last |-> -1]
<1>1. t \in Tasks
  BY DEF Tasks
<1>2. ready \in Seq(Tasks) /\ ready' = Append(ready, t)
  BY DEF TypeInv, Received
<1> HIDE DEF t
<1>3. ready' \in Seq(Tasks)
  BY <1>1, <1>2, AppendProperties
<1>4. doc' \in Docs
  BY ServerAssumption DEF TypeInv, Received, ServerAssumption, Docs
<1>5. contents' \in Histories
  BY Noted DEF Received
<1> QED  BY <1>3, <1>4, <1>5, MessageLeaves DEF TypeInv

\* The version of the next message about a document.
LEMMA NextVersion ==
    ASSUME TypeInv, DocInv, Message, NEW u \in Uri
    PROVE  /\ doc[u].version \in 0..MaxMessages
           /\ doc[u].version + 1 \in 1..MaxMessages
           /\ doc[u].version + 1 <= messages'
           /\ 1 \in 1..MaxMessages
BY ServerAssumption DEF TypeInv, DocInv, Docs, Message, ServerAssumption

LEMMA DidCloseTypes ==
    ASSUME TypeInv, DocInv, NEW u \in Uri, DidClose(u)
    PROVE  TypeInv'
<1>1. doc[u].version \in 1..MaxMessages
  BY DEF DidClose, TypeInv, DocInv, Docs
<1>2. DiskText[u] \in Text
  BY ServerAssumption DEF ServerAssumption
<1>3. contents' \in Histories
  BY <1>1, <1>2, Noted DEF DidClose
<1>4. doc' \in Docs
  BY DEF TypeInv, DidClose, Docs
<1>5. Message /\ ready' = ready
  BY DEF DidClose
<1> QED  BY <1>3, <1>4, <1>5, MessageLeaves DEF TypeInv

LEMMA MessageTypes ==
    ASSUME TypeInv, DocInv, NEW u \in Uri, NEW text \in Text,
           DidOpen(u, text) \/ DidChange(u, text)
    PROVE  TypeInv'
<1>1. CASE DidOpen(u, text)
  BY <1>1, ReceivedTypes, NextVersion DEF DidOpen
<1>2. CASE DidChange(u, text)
  BY <1>2, ReceivedTypes, NextVersion DEF DidChange
<1> QED  BY <1>1, <1>2

IsScan(t, u, version, text, at, last) ==
    /\ t \in ScanTasks /\ t.uri = u /\ t.version = version
    /\ t.text = text /\ t.at = at /\ t.last = last

LEMMA Advanced ==
    ASSUME NEW t \in ScanTasks, NEW c \in Nat, NEW next,
           next = [t EXCEPT !.at = @ + 1, !.last = c]
    PROVE  IsScan(next, t.uri, t.version, t.text, t.at + 1, c)
<1>1. next = [kind |-> t.kind, uri |-> t.uri, version |-> t.version, text |-> t.text,
              at |-> t.at + 1, last |-> c]
  BY DEF ScanTasks
<1>2. t.at + 1 \in Nat /\ c \in Int
  BY DEF ScanTasks
<1> QED  BY <1>1, <1>2 DEF ScanTasks, IsScan

LEMMA Begun ==
    ASSUME NEW t \in ScanTasks, NEW text \in Text
    PROVE  IsScan([t EXCEPT !.text = text, !.at = 1], t.uri, t.version, text, 1, t.last)
BY DEF ScanTasks, IsScan

LEMMA ScanTypes ==
    ASSUME TypeInv, AtInv, StartScan \/ CancelScan \/ PublishScan
    PROVE  TypeInv'
<1>1. ready # <<>> /\ Task = ready[1] /\ Task \in ScanTasks /\ Tail(ready) \in Seq(Tasks)
  BY TaskType, TasksByKind DEF StartScan, CancelScan, PublishScan, Running
<1> DEFINE u == Task.uri
<1>2. u \in Uri /\ Task.version \in 1..MaxMessages /\ Task.at \in Nat
  BY <1>1 DEF ScanTasks
<1>3. /\ doc' = doc /\ messages' = messages /\ contents' = contents /\ down' = down
      /\ aptState' = aptState /\ packages' = packages
  BY DEF StartScan, CancelScan, PublishScan, ScanLeavesAlone, workspace, apt
<1>4. ASSUME NEW t \in ScanTasks, ready' = Append(Tail(ready), t)
      PROVE  ready' \in Seq(Tasks)
  <2>1. t \in Tasks
    BY DEF Tasks, ScanTasks
  <2> QED  BY <1>1, <1>4, <2>1, AppendProperties
<1>5. CASE StartScan
  <2> DEFINE text == IF doc[u].open THEN doc[u].text ELSE DiskText[u]
             t == [Task EXCEPT !.text = text, !.at = 1]
  <2>1. text \in Text
    BY <1>2, ServerAssumption DEF TypeInv, Docs, ServerAssumption
  <2>2. t \in ScanTasks
    BY <1>1, <2>1, Begun DEF IsScan
  <2>3. ready' = Tail(ready) \/ ready' = Append(Tail(ready), t)
    BY <1>5 DEF StartScan, EndTask, Sleep
  <2>4. table' \in [Uri -> 0..MaxMessages] /\ shown' = shown
    BY <1>2, <1>5 DEF StartScan, TypeInv
  <2> QED  BY <1>1, <1>3, <1>4, <2>2, <2>3, <2>4 DEF TypeInv
<1>6. CASE CancelScan
  <2>1. ready' = Tail(ready) /\ table' = table /\ shown' = shown
    BY <1>6 DEF CancelScan, EndTask
  <2> QED  BY <1>1, <1>3, <2>1 DEF TypeInv
<1>7. CASE PublishScan
  <2> DEFINE yields == Yields(Task.uri, Task.text)
             count == yields[Task.at]
             t == [Task EXCEPT !.at = @ + 1, !.last = count]
  <2>1. Scanning(1, u) /\ 1 \in 1..Len(ready)
    <3>1. Len(ready) \in Nat \ {0}
      BY <1>1, TaskType
    <3> QED  BY <1>1, <1>7, <3>1 DEF PublishScan, Running, Scanning
  <2>2. Task.text \in Text /\ Task.at \in 1..Len(yields)
    BY <1>1, <1>2, <2>1 DEF AtInv
  <2>3. count \in Nat
    BY <1>2, <2>2, YieldsGrow
  <2>4. t \in ScanTasks
    <3> HIDE DEF count
    <3> QED  BY <1>1, <2>3, Advanced DEF IsScan
  <2>5. ready' = Tail(ready) \/ ready' = Append(Tail(ready), t)
    BY <1>7 DEF PublishScan, EndTask, Sleep
  <2>6. shown' \in Publications
    <3>1. [version |-> Task.version, text |-> Task.text, count |-> count]
             \in [version : 0..MaxMessages, text : Text \cup {NoText}, count : Nat]
      BY <1>2, <2>2, <2>3
    <3> QED  BY <1>2, <1>7, <3>1 DEF PublishScan, TypeInv, Publications
  <2>7. table' = table
    BY <1>7 DEF PublishScan
  <2> QED  BY <1>1, <1>3, <1>4, <2>4, <2>5, <2>6, <2>7 DEF TypeInv
<1> QED  BY <1>5, <1>6, <1>7

\* What is added to the packages found is in the index.
LEMMA WithPackageType ==
    ASSUME NEW found \in SUBSET Range(Index), NEW p \in Range(Index)
    PROVE  WithPackage(found, p) \subseteq Range(Index)
BY DEF WithPackage

LEMMA LoadTypes ==
    ASSUME TypeInv, IndexInv, Initialize \/ LoadApt \/ CancelLoading
    PROVE  TypeInv'
<1>1. ready # <<>> /\ Task = ready[1] /\ Task \in Tasks /\ Tail(ready) \in Seq(Tasks)
  BY TaskType DEF Initialize, LoadApt, CancelLoading, Running
<1>2. /\ doc' = doc /\ messages' = messages /\ contents' = contents /\ down' = down
      /\ table' = table /\ shown' = shown
  BY DEF Initialize, LoadApt, CancelLoading, LoadLeavesAlone, workspace
<1>3. ASSUME NEW t \in Tasks PROVE Append(Tail(ready), t) \in Seq(Tasks)
  BY <1>1, AppendProperties
<1>4. CASE Initialize
  <2>1. /\ ready' = Append(Tail(ready), [kind |-> "apt", at |-> 0, cancelled |-> FALSE])
        /\ aptState' = aptState /\ packages' = packages
    BY <1>4 DEF Initialize, Sleep, apt
  <2>2. [kind |-> "apt", at |-> 0, cancelled |-> FALSE] \in Tasks
    BY DEF Tasks
  <2> QED  BY <1>2, <1>3, <2>1, <2>2 DEF TypeInv
<1>5. CASE CancelLoading
  <2>1. ready' = Tail(ready) /\ aptState' = aptState /\ packages' = packages
    BY <1>5 DEF CancelLoading, EndTask, apt
  <2> QED  BY <1>1, <1>2, <2>1 DEF TypeInv
<1>6. CASE LoadApt
  <2>1. /\ Task.kind = "apt" /\ Task.at \in Nat
        /\ Task \in [kind : {"apt"}, at : Nat, cancelled : BOOLEAN]
    BY <1>1, <1>6, TasksByKind DEF LoadApt, Running
  <2> DEFINE found == IF Task.at = 0 THEN packages ELSE WithPackage(packages, Index[Task.at])
             t == [Task EXCEPT !.at = Task.at + 1]
  <2>2. found \subseteq Range(Index)
    <3>1. Task.at \in 0..Len(Index)
      <4>1. 1 \in 1..Len(ready)
        BY <1>1, TaskType
      <4> QED  BY <1>1, <2>1, <4>1 DEF IndexInv
    <3>2. Task.at # 0 => Index[Task.at] \in Range(Index)
      BY <3>1, ServerAssumption, ElementOfSeq DEF ServerAssumption
    <3> QED  BY <3>2, WithPackageType DEF TypeInv
  <2>3. t \in Tasks
    BY <2>1 DEF Tasks
  <2>4. LoadUpTo(Task.at + 1, found)
    BY <1>6 DEF LoadApt
  <2>5. /\ ready' \in {Tail(ready), Append(Tail(ready), t)}
        /\ packages' \in {found, {}}
        /\ aptState' \in {"not-loaded", "loading", "loaded", "failed", "tooling-not-available"}
    <3>1. \A fault \in LoadFaults : FinalStateOf[fault] \in
               {"loading", "failed", "tooling-not-available"}
      BY ServerAssumption DEF ServerAssumption, FinalStateOf
    <3> QED  BY <2>4, <3>1 DEF LoadUpTo, EndTask, Sleep
  <2> QED  BY <1>1, <1>2, <1>3, <2>2, <2>3, <2>5 DEF TypeInv
<1> QED  BY <1>4, <1>5, <1>6

\* A shutdown only marks the tasks in the background.
LEMMA ShutdownEffect ==
    ASSUME TypeInv, Shutdown
    PROVE  /\ ready' \in Seq(Tasks) /\ Len(ready') = Len(ready) /\ Len(ready) \in Nat
           /\ \A i \in 1..Len(ready) :
                 /\ ready'[i].kind = ready[i].kind
                 /\ ready[i].kind # "apt" => ready'[i] = ready[i]
                 /\ ready[i].kind = "apt" => ready'[i].at = ready[i].at
<1>1. ready \in Seq(Tasks) /\ Len(ready) \in Nat
  BY DEF TypeInv
<1> DEFINE marked(t) == IF t.kind = "apt" THEN [t EXCEPT !.cancelled = TRUE] ELSE t
<1>2. ready' = [i \in 1..Len(ready) |-> marked(ready[i])]
  BY DEF Shutdown
<1>3. ASSUME NEW t \in Tasks
      PROVE  /\ marked(t) \in Tasks /\ marked(t).kind = t.kind
             /\ t.kind # "apt" => marked(t) = t
             /\ t.kind = "apt" => marked(t).at = t.at
  <2>1. CASE t.kind = "apt"
    <3>1. t \in [kind : {"apt"}, at : Nat, cancelled : BOOLEAN]
      BY <2>1, TasksByKind
    <3> QED  BY <2>1, <3>1 DEF Tasks
  <2>2. CASE t.kind # "apt"
    BY <2>2
  <2> QED  BY <2>1, <2>2
<1> HIDE DEF marked
<1>4. \A i \in 1..Len(ready) : ready[i] \in Tasks
  BY <1>1, ElementOfSeq
<1>5. ready' \in [1..Len(ready) -> Tasks] /\ DOMAIN ready' = 1..Len(ready)
  BY <1>2, <1>3, <1>4
<1>6. ready' \in Seq(Tasks)
  BY <1>1, <1>5, SeqDef
<1>7. Len(ready') = Len(ready)
  <2>1. Len(ready') \in Nat /\ DOMAIN ready' = 1..Len(ready')
    BY <1>6, LenProperties
  <2> QED  BY <1>1, <1>5, <2>1
<1> QED  BY <1>1, <1>2, <1>3, <1>4, <1>6, <1>7

LEMMA NextTypes ==
    ASSUME TypeInv, DocInv, AtInv, IndexInv, [Next]_vars
    PROVE  TypeInv'
<1>1. CASE RunTask
  BY <1>1, ScanTypes, LoadTypes DEF RunTask
<1>2. CASE Shutdown
  <2>1. ready' \in Seq(Tasks)
    BY <1>2, ShutdownEffect
  <2> QED  BY <1>2, <2>1 DEF TypeInv, Shutdown, workspace, apt
<1>3. CASE UNCHANGED vars
  BY <1>3 DEF TypeInv, vars, workspace, apt
<1>4. ASSUME NEW u \in Uri, DidClose(u)  PROVE TypeInv'
  BY <1>4, DidCloseTypes
<1>5. ASSUME NEW u \in Uri, NEW text \in Text, DidOpen(u, text) \/ DidChange(u, text)
      PROVE TypeInv'
  BY <1>5, MessageTypes
<1> QED  BY <1>1, <1>2, <1>3, <1>4, <1>5 DEF Next

-----------------------------------------------------------------------------
(* What the steps do to the queue.                                          *)

LEMMA StartScanEffect ==
    ASSUME TypeInv, StartScan
    PROVE  /\ Len(ready) \in Nat \ {0}
           /\ ready[1] \in ScanTasks /\ Starting(1, ready[1].uri)
           /\ table' = [table EXCEPT ![ready[1].uri] = ready[1].version]
           /\ shown' = shown
           /\ Len(ready') \in {Len(ready) - 1, Len(ready)}
           /\ \A i \in 1..(Len(ready) - 1) : ready'[i] = ready[i + 1]
           /\ Len(ready') = Len(ready) =>
                 LET t == ready'[Len(ready)]
                 IN  /\ t \in ScanTasks
                     /\ t.uri = ready[1].uri /\ t.version = ready[1].version
                     /\ t.text = TextOf(t.uri) /\ t.text \in Text
                     /\ t.at = 1 /\ t.last = ready[1].last
                     /\ Yields(t.uri, t.text) # <<>>
<1>1. /\ ready # <<>> /\ Task = ready[1] /\ Task \in ScanTasks /\ Tail(ready) \in Seq(Tasks)
      /\ Len(ready) \in Nat \ {0} /\ ready \in Seq(Tasks)
  BY TaskType, TasksByKind DEF StartScan, Running, TypeInv
<1> DEFINE u == Task.uri
           t == [Task EXCEPT !.text = TextOf(u), !.at = 1]
<1>2. u \in Uri /\ TextOf(u) \in Text
  <2>1. u \in Uri
    BY <1>1 DEF ScanTasks
  <2> QED  BY <2>1, ServerAssumption DEF TypeInv, Docs, TextOf, ServerAssumption
<1>3. /\ t \in ScanTasks /\ t.uri = u /\ t.version = Task.version
      /\ t.text = TextOf(u) /\ t.at = 1 /\ t.last = Task.last
  <2>1. Task \in ScanTasks
    BY <1>1
  <2>2. IsScan(t, u, Task.version, TextOf(u), 1, Task.last)
    BY <1>2, <2>1, Begun, Zenon
  <2> HIDE DEF t
  <2> QED  BY <2>2 DEF IsScan
<1>4. Starting(1, u)
  BY <1>1 DEF StartScan, Running, Starting
<1>5. table' = [table EXCEPT ![u] = Task.version] /\ shown' = shown
  BY DEF StartScan
<1>6. \/ ready' = Tail(ready)
      \/ ready' = Append(Tail(ready), t) /\ Yields(u, TextOf(u)) # <<>>
  BY DEF StartScan, EndTask, Sleep, TextOf
<1>7. t \in Tasks
  BY <1>3 DEF Tasks, ScanTasks
<1> HIDE DEF t
<1>8. CASE ready' = Tail(ready)
  <2>1. Len(ready') = Len(ready) - 1 /\ \A i \in 1..(Len(ready) - 1) : ready'[i] = ready[i + 1]
    BY <1>1, <1>8, NextTasks
  <2> QED  BY <1>1, <1>4, <1>5, <2>1
<1>9. CASE ready' = Append(Tail(ready), t) /\ Yields(u, TextOf(u)) # <<>>
  <2>1. /\ Len(ready') = Len(ready)
        /\ \A i \in 1..(Len(ready) - 1) : ready'[i] = ready[i + 1]
        /\ ready'[Len(ready)] = t
    BY <1>1, <1>7, <1>9, Rotated
  <2> QED  BY <1>1, <1>2, <1>3, <1>4, <1>5, <1>9, <2>1
<1> QED  BY <1>6, <1>8, <1>9

LEMMA PublishEffect ==
    ASSUME TypeInv, AtInv, PublishScan
    PROVE  LET u == ready[1].uri
               yields == Yields(u, ready[1].text)
               count == yields[ready[1].at]
           IN  /\ Len(ready) \in Nat \ {0}
               /\ ready[1] \in ScanTasks /\ Scanning(1, u)
               /\ table[u] = ready[1].version /\ table' = table
               /\ ready[1].text \in Text
               /\ count \in Nat /\ ready[1].last <= count
               /\ shown' = IF count = ready[1].last THEN shown
                           ELSE [shown EXCEPT ![u] =
                                   [version |-> ready[1].version, text |-> ready[1].text,
                                    count |-> count]]
               /\ Len(ready') \in {Len(ready) - 1, Len(ready)}
               /\ \A i \in 1..(Len(ready) - 1) : ready'[i] = ready[i + 1]
               /\ Len(ready') = Len(ready) =>
                     LET t == ready'[Len(ready)]
                     IN  /\ t \in ScanTasks /\ t.uri = u
                         /\ t.version = ready[1].version /\ t.text = ready[1].text
                         /\ t.at = ready[1].at + 1 /\ t.at \in 2..Len(yields)
                         /\ t.last = count
<1>1. /\ ready # <<>> /\ Task = ready[1] /\ Task \in ScanTasks /\ Tail(ready) \in Seq(Tasks)
      /\ Len(ready) \in Nat \ {0} /\ ready \in Seq(Tasks) /\ 1 \in 1..Len(ready)
  BY TaskType, TasksByKind DEF PublishScan, Running, TypeInv
<1> DEFINE u == Task.uri
           yields == Yields(u, Task.text)
           count == yields[Task.at]
           t == [Task EXCEPT !.at = @ + 1, !.last = count]
<1>2. Scanning(1, u) /\ u \in Uri
  BY <1>1 DEF PublishScan, Running, Scanning, ScanTasks
<1>3. /\ Task.text \in Text /\ Task.at \in 1..Len(yields)
      /\ Task.last = IF Task.at = 1 THEN -1 ELSE yields[Task.at - 1]
  BY <1>1, <1>2 DEF AtInv
<1>4. /\ yields \in Seq(Nat)
      /\ \A i \in 1..Len(yields) \ {1} : yields[i - 1] <= yields[i]
  BY <1>2, <1>3, YieldsGrow
<1>5. count \in Nat /\ Task.last <= count
  BY <1>3, <1>4, ElementOfSeq
<1>6. /\ table[u] = Task.version /\ table' = table
      /\ shown' = IF count = Task.last THEN shown
                  ELSE [shown EXCEPT ![u] =
                          [version |-> Task.version, text |-> Task.text, count |-> count]]
      /\ \/ ready' = Tail(ready)
         \/ ready' = Append(Tail(ready), t) /\ Task.at # Len(yields)
  BY DEF PublishScan, EndTask, Sleep, IsDocAtVersion
<1> HIDE DEF count
<1>7. /\ t \in ScanTasks /\ t.uri = u /\ t.version = Task.version /\ t.text = Task.text
      /\ t.at = Task.at + 1 /\ t.last = count /\ t \in Tasks
  <2>1. /\ t \in ScanTasks /\ t.uri = u /\ t.version = Task.version /\ t.text = Task.text
        /\ t.at = Task.at + 1 /\ t.last = count
    <3>1. Task \in ScanTasks
      BY <1>1
    <3>2. count \in Nat
      BY <1>5
    <3>3. IsScan(t, u, Task.version, Task.text, Task.at + 1, count)
      BY <3>1, <3>2, Advanced, Zenon
    <3> HIDE DEF t
    <3> QED  BY <3>3 DEF IsScan
  <2>2. t \in Tasks
    BY <2>1 DEF Tasks, ScanTasks
  <2> QED  BY <2>1, <2>2
<1> HIDE DEF t
<1>8. CASE ready' = Tail(ready)
  <2>1. Len(ready') = Len(ready) - 1 /\ \A i \in 1..(Len(ready) - 1) : ready'[i] = ready[i + 1]
    BY <1>1, <1>8, NextTasks
  <2>2. Len(ready') # Len(ready)
    BY <1>1, <2>1
  <2> QED  BY <1>1, <1>2, <1>3, <1>5, <1>6, <2>1, <2>2 DEF count
<1>9. CASE ready' = Append(Tail(ready), t) /\ Task.at # Len(yields)
  <2>1. /\ Len(ready') = Len(ready)
        /\ \A i \in 1..(Len(ready) - 1) : ready'[i] = ready[i + 1]
        /\ ready'[Len(ready)] = t
    BY <1>1, <1>7, <1>9, Rotated
  <2>2. Task.at + 1 \in 2..Len(yields)
    BY <1>3, <1>4, <1>9
  <2> QED  BY <1>1, <1>2, <1>3, <1>5, <1>6, <1>7, <2>1, <2>2 DEF count
<1> QED  BY <1>6, <1>8, <1>9

\* The other tasks do nothing to what is scanned and published.
LEMMA OtherEffect ==
    ASSUME TypeInv, CancelScan \/ Initialize \/ LoadApt \/ CancelLoading
    PROVE  /\ Len(ready) \in Nat \ {0}
           /\ table' = table /\ shown' = shown
           /\ Len(ready') \in {Len(ready) - 1, Len(ready)}
           /\ \A i \in 1..(Len(ready) - 1) : ready'[i] = ready[i + 1]
           /\ \A u \in Uri : ~ Starting(1, u)
           /\ Len(ready') = Len(ready) => ready'[Len(ready)].kind = "apt"
<1>1. /\ ready # <<>> /\ Task = ready[1] /\ Task \in Tasks
      /\ Len(ready) \in Nat \ {0} /\ ready \in Seq(Tasks)
  BY TaskType DEF CancelScan, Initialize, LoadApt, CancelLoading, Running, TypeInv
<1>2. table' = table /\ shown' = shown
  BY DEF CancelScan, Initialize, LoadApt, CancelLoading, LoadLeavesAlone
<1>3. \A u \in Uri : ~ Starting(1, u)
  BY <1>1 DEF CancelScan, Initialize, LoadApt, CancelLoading, Running, Starting
<1>4. ready' = Tail(ready) \/ \E t \in Tasks : t.kind = "apt" /\ ready' = Append(Tail(ready), t)
  <2>1. CASE CancelScan \/ CancelLoading
    BY <2>1 DEF CancelScan, CancelLoading, EndTask
  <2>2. CASE Initialize
    <3>1. [kind |-> "apt", at |-> 0, cancelled |-> FALSE] \in Tasks
      BY DEF Tasks
    <3> QED  BY <2>2, <3>1 DEF Initialize, Sleep
  <2>3. CASE LoadApt
    <3>1. Task \in [kind : {"apt"}, at : Nat, cancelled : BOOLEAN]
      BY <1>1, <2>3, TasksByKind DEF LoadApt, Running
    <3> DEFINE t == [Task EXCEPT !.at = Task.at + 1]
    <3>2. t \in Tasks /\ t.kind = "apt"
      BY <3>1 DEF Tasks
    <3>3. ready' = Tail(ready) \/ ready' = Append(Tail(ready), t)
      BY <2>3 DEF LoadApt, LoadUpTo, EndTask, Sleep
    <3> QED  BY <3>2, <3>3
  <2> QED  BY <2>1, <2>2, <2>3
<1>5. CASE ready' = Tail(ready)
  <2>1. Len(ready') = Len(ready) - 1 /\ \A i \in 1..(Len(ready) - 1) : ready'[i] = ready[i + 1]
    BY <1>1, <1>5, NextTasks
  <2> QED  BY <1>1, <1>2, <1>3, <2>1
<1>6. ASSUME NEW t \in Tasks, t.kind = "apt", ready' = Append(Tail(ready), t)
      PROVE  /\ Len(ready') = Len(ready)
             /\ \A i \in 1..(Len(ready) - 1) : ready'[i] = ready[i + 1]
             /\ ready'[Len(ready)].kind = "apt"
  BY <1>1, <1>6, Rotated
<1> QED  BY <1>1, <1>2, <1>3, <1>4, <1>5, <1>6

LEMMA ReceivedEffect ==
    ASSUME TypeInv, NEW u \in Uri, NEW text \in Text, NEW version \in 1..MaxMessages,
           Received(u, version, text)
    PROVE  /\ Len(ready) \in Nat /\ Len(ready') = Len(ready) + 1
           /\ \A i \in 1..Len(ready) : ready'[i] = ready[i]
           /\ ready'[Len(ready) + 1] = [kind |-> "diagnose", uri |-> u, version |-> version,
                                        text |-> NoText, at |-> 0, last |-> -1]
           /\ \A v \in Uri \ {u} : doc'[v] = doc[v]
           /\ doc'[u].version = version /\ doc'[u].open /\ doc'[u].text = text
           /\ text \in contents'[u][version]
           /\ \A v \in Uri, w \in 1..MaxMessages : contents[v][w] \subseteq contents'[v][w]
<1> DEFINE t == [kind |-> "diagnose", uri |-> u, version |-> version,
                 text |-> NoText, at |-> 0, last |-> -1]
<1>1. t \in Tasks
  BY DEF Tasks
<1>2. ready \in Seq(Tasks) /\ ready' = Append(ready, t) /\ Len(ready) \in Nat
  BY DEF TypeInv, Received
<1>3. /\ Len(ready') = Len(ready) + 1
      /\ \A i \in 1..Len(ready) : ready'[i] = ready[i]
      /\ ready'[Len(ready) + 1] = t
  <2> HIDE DEF t
  <2> QED  BY <1>1, <1>2, AppendProperties
<1>4. /\ \A v \in Uri \ {u} : doc'[v] = doc[v]
      /\ doc'[u] = [open |-> TRUE, version |-> version, text |-> text]
  BY DEF TypeInv, Docs, Received
<1>5. /\ text \in contents'[u][version]
      /\ \A v \in Uri, w \in 1..MaxMessages : contents[v][w] \subseteq contents'[v][w]
  BY Noted DEF Received
<1> QED  BY <1>2, <1>3, <1>4, <1>5

LEMMA DidCloseEffect ==
    ASSUME TypeInv, DocInv, NEW u \in Uri, DidClose(u)
    PROVE  /\ ready' = ready /\ table' = table /\ shown' = shown
           /\ \A v \in Uri : doc'[v].version = doc[v].version
           /\ \A v \in Uri \ {u} : doc'[v] = doc[v]
           /\ ~ doc'[u].open /\ doc[u].version \in 1..MaxMessages
           /\ DiskText[u] \in contents'[u][doc[u].version]
           /\ \A v \in Uri, w \in 1..MaxMessages : contents[v][w] \subseteq contents'[v][w]
<1>1. doc[u].version \in 1..MaxMessages /\ DiskText[u] \in Text
  <2>1. DiskText[u] \in Text
    BY ServerAssumption DEF ServerAssumption
  <2> QED  BY <2>1 DEF DidClose, TypeInv, DocInv, Docs
<1>2. /\ DiskText[u] \in contents'[u][doc[u].version]
      /\ \A v \in Uri, w \in 1..MaxMessages : contents[v][w] \subseteq contents'[v][w]
  BY <1>1, Noted DEF DidClose
<1>3. /\ \A v \in Uri : doc'[v].version = doc[v].version
      /\ \A v \in Uri \ {u} : doc'[v] = doc[v]
      /\ ~ doc'[u].open
  BY DEF DidClose, TypeInv, Docs
<1> QED  BY <1>1, <1>2, <1>3 DEF DidClose, Message

\* The versions a message may have, in one place.
LEMMA MessageForm ==
    ASSUME TypeInv, DocInv, NEW u \in Uri, NEW text \in Text,
           DidOpen(u, text) \/ DidChange(u, text)
    PROVE  /\ Message
           /\ \E version \in 1..MaxMessages :
                 /\ version <= messages' /\ Received(u, version, text)
                 /\ ~ VersionsRestart => version = doc[u].version + 1
<1>1. Message
  BY DEF DidOpen, DidChange
<1>2. /\ doc[u].version + 1 \in 1..MaxMessages /\ doc[u].version + 1 <= messages'
      /\ doc[u].version \in Nat /\ 1 \in 1..MaxMessages /\ 1 <= messages'
  BY <1>1, NextVersion DEF TypeInv, Message
<1>3. CASE DidChange(u, text)
  BY <1>1, <1>2, <1>3 DEF DidChange
<1>4. CASE DidOpen(u, text) /\ VersionsRestart
  BY <1>1, <1>2, <1>4 DEF DidOpen
<1>5. CASE DidOpen(u, text) /\ ~ VersionsRestart
  BY <1>1, <1>2, <1>5 DEF DidOpen
<1> QED  BY <1>3, <1>4, <1>5

\* A task of the loop leaves the documents alone.
LEMMA RunTaskFrame ==
    ASSUME RunTask
    PROVE  doc' = doc /\ messages' = messages /\ contents' = contents
BY DEF RunTask, StartScan, CancelScan, PublishScan, Initialize, LoadApt, CancelLoading,
       ScanLeavesAlone, LoadLeavesAlone, workspace

LEMMA DocStep ==
    ASSUME TypeInv, DocInv, [Next]_vars
    PROVE  DocInv'
<1>1. CASE RunTask \/ Shutdown \/ UNCHANGED vars
  <2>1. doc' = doc /\ messages' = messages /\ contents' = contents
    BY <1>1, RunTaskFrame DEF Shutdown, workspace, vars
  <2> QED  BY <2>1 DEF DocInv, TextOf
<1>2. ASSUME NEW u \in Uri, DidClose(u)  PROVE DocInv'
  <2>1. messages' = messages + 1 /\ messages \in Nat /\ doc \in Docs
    BY <1>2, MessageLeaves DEF DidClose, TypeInv
  <2>2. ASSUME NEW v \in Uri
        PROVE  /\ doc'[v].version <= messages'
               /\ doc'[v].open => doc'[v].version > 0
               /\ doc'[v].version > 0 => TextOf(v)' \in contents'[v][doc'[v].version]
    <3>1. doc[v].version \in 0..MaxMessages
      BY <2>1 DEF Docs
    <3>2. CASE v = u
      BY <1>2, <2>1, <3>1, <3>2, DidCloseEffect DEF DocInv, TextOf
    <3>3. CASE v # u
      <4>1. doc'[v] = doc[v] /\ TextOf(v)' = TextOf(v)
        BY <1>2, <3>3, DidCloseEffect DEF TextOf
      <4>2. doc[v].version > 0 => contents[v][doc[v].version] \subseteq contents'[v][doc[v].version]
        BY <1>2, <3>1, DidCloseEffect
      <4> QED  BY <2>1, <3>1, <4>1, <4>2 DEF DocInv
    <3> QED  BY <3>2, <3>3
  <2> QED  BY <2>2 DEF DocInv
<1>3. ASSUME NEW u \in Uri, NEW text \in Text, DidOpen(u, text) \/ DidChange(u, text)
      PROVE  DocInv'
  <2>1. PICK version \in 1..MaxMessages : version <= messages' /\ Received(u, version, text)
    BY <1>3, MessageForm
  <2>2. messages' = messages + 1 /\ messages \in Nat /\ doc \in Docs
    BY <1>3, MessageForm, MessageLeaves DEF TypeInv
  <2>4. /\ \A v \in Uri \ {u} : doc'[v] = doc[v]
        /\ doc'[u].version = version /\ doc'[u].open /\ doc'[u].text = text
        /\ text \in contents'[u][version]
        /\ \A v \in Uri, w \in 1..MaxMessages : contents[v][w] \subseteq contents'[v][w]
    BY <2>1, ReceivedEffect
  <2>3. ASSUME NEW v \in Uri
        PROVE  /\ doc'[v].version <= messages'
               /\ doc'[v].open => doc'[v].version > 0
               /\ doc'[v].version > 0 => TextOf(v)' \in contents'[v][doc'[v].version]
    <3>1. doc[v].version \in 0..MaxMessages
      BY <2>2 DEF Docs
    <3>2. CASE v = u
      BY <2>1, <2>4, <3>2 DEF TextOf
    <3>3. CASE v # u
      <4>1. doc'[v] = doc[v] /\ TextOf(v)' = TextOf(v)
        BY <2>4, <3>3 DEF TextOf
      <4>2. doc[v].version > 0 => contents[v][doc[v].version] \subseteq contents'[v][doc[v].version]
        BY <2>4, <3>1
      <4> QED  BY <2>2, <3>1, <4>1, <4>2 DEF DocInv
    <3> QED  BY <3>2, <3>3
  <2> QED  BY <2>3 DEF DocInv
<1> QED  BY <1>1, <1>2, <1>3 DEF Next

\* What all tasks have in common: the queue moves up, and what is added to it
\* has begun.
LEMMA RunTaskEffect ==
    ASSUME TypeInv, AtInv, RunTask
    PROVE  /\ Len(ready) \in Nat \ {0}
           /\ Len(ready') \in {Len(ready) - 1, Len(ready)}
           /\ \A u \in Uri : \A i \in 1..(Len(ready) - 1) :
                 /\ ready'[i] = ready[i + 1]
                 /\ Starting(i, u)' <=> Starting(i + 1, u)
                 /\ Scanning(i, u)' <=> Scanning(i + 1, u)
           /\ Len(ready') = Len(ready) => \A u \in Uri : ~ Starting(Len(ready), u)'
<1>1. /\ Len(ready) \in Nat \ {0}
      /\ Len(ready') \in {Len(ready) - 1, Len(ready)}
      /\ \A i \in 1..(Len(ready) - 1) : ready'[i] = ready[i + 1]
  BY StartScanEffect, PublishEffect, OtherEffect DEF RunTask
<1>2. Len(ready') = Len(ready) =>
          ready'[Len(ready)].kind = "apt" \/ ready'[Len(ready)].at > 0
  <2>1. CASE StartScan
    BY <2>1, StartScanEffect
  <2>2. CASE PublishScan
    BY <2>2, PublishEffect
  <2>3. CASE CancelScan \/ Initialize \/ LoadApt \/ CancelLoading
    BY <2>3, OtherEffect
  <2> QED  BY <2>1, <2>2, <2>3 DEF RunTask
<1>3. \A u \in Uri : \A i \in 1..(Len(ready) - 1) :
         /\ Starting(i, u)' <=> Starting(i + 1, u)
         /\ Scanning(i, u)' <=> Scanning(i + 1, u)
  BY <1>1 DEF Starting, Scanning
<1>4. Len(ready') = Len(ready) => \A u \in Uri : ~ Starting(Len(ready), u)'
  BY <1>2 DEF Starting
<1> QED  BY <1>1, <1>3, <1>4

-----------------------------------------------------------------------------
(* The text of what is published.                                           *)

LEMMA LatestStep ==
    ASSUME TypeInv, DocInv, AtInv, LatestInv, [Next]_vars
    PROVE  LatestInv'
<1> SUFFICES ASSUME NEW v \in Uri, NEW i \in 1..Len(ready'), Starting(i, v)',
                    \A k \in (i + 1)..Len(ready') : ~ Starting(k, v)'
             PROVE  ready'[i].version = doc'[v].version
  BY DEF LatestInv
<1>0. Len(ready) \in Nat
  BY DEF TypeInv
<1>1. CASE RunTask
  <2>1. /\ Len(ready) \in Nat \ {0}
        /\ Len(ready') \in {Len(ready) - 1, Len(ready)}
        /\ \A k \in 1..(Len(ready) - 1) :
              ready'[k] = ready[k + 1] /\ (Starting(k, v)' <=> Starting(k + 1, v))
        /\ Len(ready') = Len(ready) => ~ Starting(Len(ready), v)'
    BY <1>1, RunTaskEffect
  <2>2. i \in 1..(Len(ready) - 1)
    BY <2>1
  <2>3. i + 1 \in 1..Len(ready) /\ Starting(i + 1, v) /\ ready'[i] = ready[i + 1]
    BY <2>1, <2>2
  <2>4. ASSUME NEW k \in (i + 1 + 1)..Len(ready)  PROVE ~ Starting(k, v)
    <3>1. /\ k - 1 \in 1..(Len(ready) - 1) /\ (k - 1) + 1 = k
          /\ k - 1 \in (i + 1)..Len(ready')
      BY <2>1, <2>2
    <3> QED  BY <2>1, <3>1
  <2> QED  BY <1>1, <2>3, <2>4, RunTaskFrame DEF LatestInv
<1>2. CASE Shutdown
  <2>1. /\ Len(ready') = Len(ready) /\ doc' = doc
        /\ \A k \in 1..Len(ready) :
              /\ ready'[k].kind = ready[k].kind
              /\ ready[k].kind # "apt" => ready'[k] = ready[k]
    BY <1>2, ShutdownEffect DEF Shutdown, workspace
  <2>2. ASSUME NEW k \in 1..Len(ready)
        PROVE  /\ Starting(k, v)' <=> Starting(k, v)
               /\ Starting(k, v)' => ready'[k] = ready[k]
    <3>1. CASE ready[k].kind = "apt"
      BY <2>1, <3>1 DEF Starting
    <3>2. CASE ready[k].kind # "apt"
      BY <2>1, <3>2 DEF Starting
    <3> QED  BY <3>1, <3>2
  <2>3. ready'[i] = ready[i]
    BY <2>1, <2>2
  <2>4. \A k \in (i + 1)..Len(ready) : k \in 1..Len(ready)
    BY <1>0, <2>1
  <2> QED  BY <2>1, <2>2, <2>3, <2>4 DEF LatestInv
<1>3. CASE UNCHANGED vars
  BY <1>3 DEF LatestInv, Starting, vars, workspace
<1>4. ASSUME NEW u \in Uri, DidClose(u)  PROVE ready'[i].version = doc'[v].version
  <2>1. ready' = ready /\ doc'[v].version = doc[v].version
    BY <1>4, DidCloseEffect
  <2> QED  BY <2>1 DEF LatestInv, Starting
<1>5. ASSUME NEW u \in Uri, NEW text \in Text, DidOpen(u, text) \/ DidChange(u, text)
      PROVE  ready'[i].version = doc'[v].version
  <2>1. PICK version \in 1..MaxMessages : Received(u, version, text)
    BY <1>5, MessageForm
  <2>2. /\ Len(ready') = Len(ready) + 1
        /\ \A k \in 1..Len(ready) : ready'[k] = ready[k]
        /\ ready'[Len(ready) + 1] = [kind |-> "diagnose", uri |-> u, version |-> version,
                                     text |-> NoText, at |-> 0, last |-> -1]
        /\ \A w \in Uri \ {u} : doc'[w] = doc[w]
        /\ doc'[u].version = version
    BY <2>1, ReceivedEffect
  <2>0. PICK n : n = Len(ready) + 1
    OBVIOUS
  <2>3. Starting(n, u)' /\ (v # u => ~ Starting(n, v)')
    BY <2>0, <2>2 DEF Starting
  <2>4. CASE i = Len(ready) + 1
    <3>1. u = v
      BY <2>0, <2>3, <2>4
    <3> QED  BY <2>2, <2>4, <3>1
  <2>5. CASE i # Len(ready) + 1
    <3>1. i \in 1..Len(ready) /\ n \in (i + 1)..Len(ready')
      BY <1>0, <2>0, <2>2, <2>5
    <3>2. v # u
      BY <2>3, <3>1
    <3>3. \A k \in 1..Len(ready) : Starting(k, v)' <=> Starting(k, v)
      BY <2>2 DEF Starting
    <3>4. \A k \in (i + 1)..Len(ready) : k \in 1..Len(ready) /\ k \in (i + 1)..Len(ready')
      BY <1>0, <2>2
    <3>5. ready[i].version = doc[v].version
      BY <3>1, <3>3, <3>4 DEF LatestInv
    <3> QED  BY <2>2, <3>1, <3>2, <3>5
  <2> QED  BY <2>4, <2>5
<1> QED  BY <1>1, <1>2, <1>3, <1>4, <1>5 DEF Next

LEMMA AtStep ==
    ASSUME TypeInv, DocInv, AtInv, [Next]_vars
    PROVE  AtInv'
<1> DEFINE Good(t, u) ==
             /\ t.at = 0 => t.last = -1
             /\ t.at > 0 =>
                   LET yields == Yields(u, t.text)
                   IN  /\ t.text \in Text /\ t.at \in 1..Len(yields)
                       /\ t.last = IF t.at = 1 THEN -1 ELSE yields[t.at - 1]
           Mine(t, u) == t.kind = "diagnose" /\ t.uri = u
<1>0. /\ Len(ready) \in Nat
      /\ AtInv <=> \A u \in Uri : \A i \in 1..Len(ready) : Mine(ready[i], u) => Good(ready[i], u)
      /\ AtInv' <=> \A u \in Uri : \A i \in 1..Len(ready') : Mine(ready'[i], u) => Good(ready'[i], u)
  BY DEF AtInv, Starting, Scanning, TypeInv
<1> SUFFICES ASSUME NEW v \in Uri, NEW i \in 1..Len(ready'), Mine(ready'[i], v)
             PROVE  Good(ready'[i], v)
  BY <1>0
<1>1. \A k \in 1..Len(ready) : Mine(ready[k], v) => Good(ready[k], v)
  BY <1>0
<1> HIDE DEF Good
<1>2. CASE StartScan
  <2>1. CASE i \in 1..(Len(ready) - 1)
    <3>1. ready'[i] = ready[i + 1] /\ i + 1 \in 1..Len(ready)
      BY <1>2, <2>1, StartScanEffect
    <3> QED  BY <1>1, <3>1
  <2>2. CASE i \notin 1..(Len(ready) - 1)
    <3>1. /\ i = Len(ready) /\ Len(ready') = Len(ready) /\ 1 \in 1..Len(ready)
      BY <1>2, <2>2, StartScanEffect
    <3>2. /\ ready'[i].uri = v /\ ready'[i].text \in Text
          /\ ready'[i].at = 1 /\ ready'[i].last = ready[1].last
          /\ Yields(v, ready'[i].text) # <<>>
      BY <1>2, <3>1, StartScanEffect
    <3>3. ready[1].last = -1
      <4>1. Starting(1, ready[1].uri) /\ ready[1].uri \in Uri
        BY <1>2, StartScanEffect DEF ScanTasks
      <4> QED  BY <3>1, <4>1 DEF AtInv
    <3>4. 1 \in 1..Len(Yields(v, ready'[i].text))
      BY <3>2, YieldsGrow, EmptySeq
    <3> QED  BY <3>2, <3>3, <3>4 DEF Good
  <2> QED  BY <2>1, <2>2
<1>3. CASE PublishScan
  <2>1. CASE i \in 1..(Len(ready) - 1)
    <3>1. ready'[i] = ready[i + 1] /\ i + 1 \in 1..Len(ready)
      BY <1>3, <2>1, PublishEffect
    <3> QED  BY <1>1, <3>1
  <2>2. CASE i \notin 1..(Len(ready) - 1)
    <3>1. i = Len(ready) /\ Len(ready') = Len(ready)
      BY <1>3, <2>2, PublishEffect
    <3>2. /\ ready'[i].uri = v /\ ready'[i].uri = ready[1].uri /\ ready'[i].text = ready[1].text
          /\ ready'[i].text \in Text /\ ready'[i].at = ready[1].at + 1
          /\ ready'[i].at \in 2..Len(Yields(v, ready'[i].text))
          /\ ready'[i].last = Yields(v, ready'[i].text)[ready[1].at]
          /\ ready[1].at \in Nat
      BY <1>3, <3>1, PublishEffect DEF ScanTasks
    <3>3. ready'[i].at - 1 = ready[1].at
      BY <3>2
    <3>4. Yields(v, ready'[i].text) \in Seq(Nat) /\ Len(Yields(v, ready'[i].text)) \in Nat
      <4>1. Yields(v, ready'[i].text) \in Seq(Nat)
        BY <3>2, YieldsGrow
      <4> QED  BY <4>1, LenProperties
    <3>5. /\ ready'[i].at \in 1..Len(Yields(v, ready'[i].text)) /\ ready'[i].at # 1
          /\ ready'[i].at # 0
      <4> DEFINE l == Len(Yields(v, ready'[i].text))
      <4>1. l \in Nat /\ ready'[i].at \in 2..l
        BY <3>2, <3>4
      <4> HIDE DEF l
      <4>2. ready'[i].at \in 1..l /\ ready'[i].at # 1 /\ ready'[i].at # 0
        BY ONLY <4>1
      <4> QED  BY <4>2 DEF l
    <3> QED  BY <3>2, <3>3, <3>5 DEF Good
  <2> QED  BY <2>1, <2>2
<1>4. CASE CancelScan \/ Initialize \/ LoadApt \/ CancelLoading
  <2>1. i \in 1..(Len(ready) - 1)
    BY <1>4, OtherEffect
  <2>2. ready'[i] = ready[i + 1] /\ i + 1 \in 1..Len(ready)
    BY <1>4, <2>1, OtherEffect
  <2> QED  BY <1>1, <2>2
<1>5. CASE Shutdown
  <2>1. i \in 1..Len(ready) /\ ready'[i] = ready[i]
    BY <1>5, ShutdownEffect
  <2> QED  BY <1>1, <2>1
<1>6. ASSUME NEW u \in Uri, DidClose(u)  PROVE Good(ready'[i], v)
  <2>1. ready' = ready
    BY <1>6, DidCloseEffect
  <2> QED  BY <1>1, <2>1
<1>7. ASSUME NEW u \in Uri, NEW text \in Text, DidOpen(u, text) \/ DidChange(u, text)
      PROVE  Good(ready'[i], v)
  <2>1. PICK version \in 1..MaxMessages : Received(u, version, text)
    BY <1>7, MessageForm
  <2>2. /\ Len(ready') = Len(ready) + 1
        /\ \A k \in 1..Len(ready) : ready'[k] = ready[k]
        /\ ready'[Len(ready) + 1] = [kind |-> "diagnose", uri |-> u, version |-> version,
                                     text |-> NoText, at |-> 0, last |-> -1]
    BY <2>1, ReceivedEffect
  <2>3. CASE i = Len(ready) + 1
    BY <2>2, <2>3 DEF Good
  <2>4. CASE i # Len(ready) + 1
    BY <1>0, <1>1, <2>2, <2>4
  <2> QED  BY <2>3, <2>4
<1>8. CASE UNCHANGED vars
  BY <1>1, <1>8 DEF vars
<1> QED  BY <1>2, <1>3, <1>4, <1>5, <1>6, <1>7, <1>8 DEF Next, RunTask

\* What overtakes a task still does when the first of the queue was another one.
LEMMA StillSuperseded ==
    ASSUME TypeInv, AtInv, RunTask, NEW u \in Uri, NEW i \in 1..(Len(ready) - 1),
           Superseded(i + 1, u), Starting(1, u) => table'[u] = ready[1].version,
           ~ Starting(1, u) => table'[u] = table[u]
    PROVE  Superseded(i, u)'
<1>1. /\ Len(ready) \in Nat \ {0}
      /\ \A k \in 1..(Len(ready) - 1) :
            ready'[k] = ready[k + 1] /\ (Starting(k, u)' <=> Starting(k + 1, u))
  BY RunTaskEffect
<1>2. ready'[i] = ready[i + 1]
  BY <1>1
<1>3. \A k \in 1..(i - 1) : k \in 1..(Len(ready) - 1) /\ k + 1 \in 1..(i + 1 - 1)
  BY <1>1
<1>4. CASE /\ table[u] # ready[i + 1].version
           /\ \A k \in 1..(i + 1 - 1) : ~ Starting(k, u)
  <2>1. ~ Starting(1, u) /\ \A k \in 1..(i - 1) : ~ Starting(k, u)'
    BY <1>1, <1>3, <1>4
  <2> QED  BY <1>2, <1>4, <2>1 DEF Superseded
<1>5. CASE \E j \in 1..(i + 1 - 1) :
             /\ Starting(j, u) /\ ready[j].version # ready[i + 1].version
             /\ \A k \in (j + 1)..(i + 1 - 1) : ~ Starting(k, u)
  <2>1. PICK j \in 1..(i + 1 - 1) :
             /\ Starting(j, u) /\ ready[j].version # ready[i + 1].version
             /\ \A k \in (j + 1)..(i + 1 - 1) : ~ Starting(k, u)
    BY <1>5
  <2>2. CASE j = 1
    <3>1. \A k \in 1..(i - 1) : k + 1 \in (j + 1)..(i + 1 - 1)
      BY <2>2
    <3>2. \A k \in 1..(i - 1) : ~ Starting(k, u)'
      BY <1>1, <1>3, <2>1, <3>1
    <3>3. table'[u] # ready'[i].version
      BY <1>2, <2>1, <2>2
    <3> QED  BY <3>2, <3>3 DEF Superseded
  <2>3. CASE j # 1
    <3>1. j - 1 \in 1..(i - 1) /\ (j - 1) + 1 = j
      BY <2>3
    <3>2. Starting(j - 1, u)' /\ ready'[j - 1] = ready[j]
      BY <1>1, <1>3, <2>1, <3>1
    <3>3. ASSUME NEW k \in (j - 1 + 1)..(i - 1)  PROVE ~ Starting(k, u)'
      <4>1. k \in 1..(i - 1) /\ k + 1 \in (j + 1)..(i + 1 - 1)
        BY <3>1
      <4> QED  BY <1>1, <1>3, <2>1, <4>1
    <3> QED  BY <1>2, <2>1, <3>1, <3>2, <3>3 DEF Superseded
  <2> QED  BY <2>2, <2>3
<1> QED  BY <1>4, <1>5 DEF Superseded

\* The text a task reads is that of its version, or the task of the last message
\* begins before it comes back.
LEMMA ReadText ==
    ASSUME TypeInv, DocInv, AtInv, LatestInv, StartScan,
           NEW u \in Uri, u = ready[1].uri, NEW n, n = Len(ready), Len(ready') = n
    PROVE  TextOf(u) \in contents[u][ready[1].version] \/ Superseded(n, u)'
<1>0. n \in Nat \ {0} /\ RunTask
  BY StartScanEffect DEF RunTask
<1>1. /\ Starting(1, u) /\ ready[1].version \in 1..MaxMessages
      /\ ready'[n].version = ready[1].version
      /\ \A k \in 1..(n - 1) :
            ready'[k] = ready[k + 1] /\ (Starting(k, u)' <=> Starting(k + 1, u))
  <2>1. ready[1] \in ScanTasks /\ Starting(1, u) /\ ready'[n].version = ready[1].version
    BY <1>0, StartScanEffect
  <2>2. ready[1].version \in 1..MaxMessages
    BY <2>1 DEF ScanTasks
  <2>3. \A k \in 1..(n - 1) :
            ready'[k] = ready[k + 1] /\ (Starting(k, u)' <=> Starting(k + 1, u))
    BY <1>0, RunTaskEffect
  <2> QED  BY <2>1, <2>2, <2>3
<1> DEFINE S == {j \in 1..n : Starting(j, u)}
<1>2. PICK m \in S : \A k \in S : k <= m
  <2>1. 1 \in S /\ S \in SUBSET (1..n)
    BY <1>0, <1>1
  <2> HIDE DEF S
  <2> QED  BY <1>0, <2>1, GreatestExists
<1>3. /\ m \in 1..n /\ Starting(m, u)
      /\ \A k \in (m + 1)..n : ~ Starting(k, u)
  <2>1. m \in 1..n /\ Starting(m, u)
    OBVIOUS
  <2>2. ASSUME NEW k \in (m + 1)..n, Starting(k, u)  PROVE FALSE
    <3>1. k \in S /\ ~ (k <= m)
      BY <2>1, <2>2
    <3> QED  BY <1>2, <3>1
  <2> QED  BY <2>1, <2>2
<1>4. ready[m].version = doc[u].version
  BY <1>0, <1>1, <1>3 DEF LatestInv
<1>5. CASE ready[m].version = ready[1].version
  <2>1. doc[u].version > 0 => TextOf(u) \in contents[u][doc[u].version]
    BY <1>1 DEF DocInv
  <2> QED  BY <1>1, <1>4, <1>5, <2>1
<1>6. CASE ready[m].version # ready[1].version
  <2>1. m - 1 \in 1..(n - 1) /\ (m - 1) + 1 = m
    BY <1>3, <1>6
  <2>2. Starting(m - 1, u)' /\ ready'[m - 1].version # ready'[n].version
    BY <1>1, <1>3, <1>6, <2>1
  <2>3. ASSUME NEW k \in (m - 1 + 1)..(n - 1)  PROVE ~ Starting(k, u)'
    <3>1. k \in 1..(n - 1) /\ k + 1 \in (m + 1)..n
      BY <1>3, <2>1
    <3> QED  BY <1>1, <1>3, <3>1
  <2>4. Superseded(n, u)'
    BY <2>1, <2>2, <2>3 DEF Superseded
  <2> QED  BY <2>4
<1> QED  BY <1>5, <1>6

LEMMA TextStep ==
    ASSUME TypeInv, DocInv, LatestInv, AtInv, TextInv, [Next]_vars
    PROVE  TextInv'
<1> SUFFICES ASSUME NEW v \in Uri, NEW i \in 1..Len(ready'), Scanning(i, v)'
             PROVE  \/ ready'[i].text \in contents'[v][ready'[i].version]
                    \/ Superseded(i, v)'
  BY DEF TextInv
<1>0. Len(ready) \in Nat /\ \A k \in 1..Len(ready) : ready[k] \in Tasks
  BY ElementOfSeq DEF TypeInv
<1>v. \A k \in 1..Len(ready) : Scanning(k, v) => ready[k].version \in 1..MaxMessages
  BY <1>0, TasksByKind DEF Scanning, ScanTasks
<1>1. CASE RunTask
  <2>1. /\ Len(ready) \in Nat \ {0}
        /\ Len(ready') \in {Len(ready) - 1, Len(ready)}
        /\ \A k \in 1..(Len(ready) - 1) :
              ready'[k] = ready[k + 1] /\ (Scanning(k, v)' <=> Scanning(k + 1, v))
    BY <1>1, RunTaskEffect
  <2>2. contents' = contents
    BY <1>1, RunTaskFrame
  <2>3. /\ Starting(1, v) => table'[v] = ready[1].version
        /\ ~ Starting(1, v) => table'[v] = table[v]
    <3>1. CASE StartScan
      BY <3>1, StartScanEffect DEF Starting, TypeInv
    <3>2. CASE PublishScan
      BY <3>2, PublishEffect DEF Starting, Scanning
    <3>3. CASE CancelScan \/ Initialize \/ LoadApt \/ CancelLoading
      BY <3>3, OtherEffect
    <3> QED  BY <1>1, <3>1, <3>2, <3>3 DEF RunTask
  <2>4. CASE i \in 1..(Len(ready) - 1)
    <3>1. Scanning(i + 1, v) /\ i + 1 \in 1..Len(ready) /\ ready'[i] = ready[i + 1]
      BY <2>1, <2>4
    <3>2. ready[i + 1].text \in contents[v][ready[i + 1].version] \/ Superseded(i + 1, v)
      BY <3>1 DEF TextInv
    <3>3. Superseded(i + 1, v) => Superseded(i, v)'
      BY <1>1, <2>3, <2>4, StillSuperseded
    <3> QED  BY <2>2, <3>1, <3>2, <3>3
  <2>5. CASE i \notin 1..(Len(ready) - 1)
    <3>1. i = Len(ready) /\ Len(ready') = Len(ready)
      BY <2>1, <2>5
    <3>2. CASE StartScan
      <4>1. /\ ready'[i].uri = ready[1].uri /\ ready'[i].version = ready[1].version
            /\ ready'[i].text = TextOf(ready[1].uri) /\ ready[1].uri = v
        BY <3>1, <3>2, StartScanEffect DEF Scanning
      <4>2. TextOf(v) \in contents[v][ready[1].version] \/ Superseded(i, v)'
        BY <3>1, <3>2, <4>1, ReadText
      <4> QED  BY <2>2, <4>1, <4>2
    <3>3. CASE PublishScan
      <4>1. /\ ready'[i].version = ready[1].version /\ ready'[i].text = ready[1].text
            /\ ready[1].uri = v /\ Scanning(1, v) /\ table[v] = ready[1].version
        BY <3>1, <3>3, PublishEffect DEF Scanning
      <4>2. ~ Superseded(1, v)
        BY <4>1 DEF Superseded
      <4>3. ready[1].text \in contents[v][ready[1].version]
        BY <2>1, <4>1, <4>2 DEF TextInv
      <4> QED  BY <2>2, <4>1, <4>3
    <3>4. CASE CancelScan \/ Initialize \/ LoadApt \/ CancelLoading
      BY <3>1, <3>4, OtherEffect DEF Scanning
    <3> QED  BY <1>1, <3>2, <3>3, <3>4 DEF RunTask
  <2> QED  BY <2>4, <2>5
<1>2. ASSUME /\ table' = table /\ i \in 1..Len(ready)
             /\ \A k \in 1..i : /\ Starting(k, v)' <=> Starting(k, v)
                                /\ Starting(k, v) \/ Scanning(k, v) => ready'[k] = ready[k]
             /\ Scanning(i, v)
             /\ \A w \in 1..MaxMessages : contents[v][w] \subseteq contents'[v][w]
      PROVE  \/ ready'[i].text \in contents'[v][ready'[i].version]
             \/ Superseded(i, v)'
  <2>1. ready'[i] = ready[i]
    BY <1>0, <1>2
  <2>2. \A k \in 1..(i - 1) : k \in 1..i
    BY <1>0, <1>2
  <2>3. CASE ready[i].text \in contents[v][ready[i].version]
    BY <1>2, <1>v, <2>1, <2>3
  <2>4. CASE Superseded(i, v)
    <3>1. CASE /\ table[v] # ready[i].version
               /\ \A k \in 1..(i - 1) : ~ Starting(k, v)
      BY <1>2, <2>1, <2>2, <3>1 DEF Superseded
    <3>2. CASE \E j \in 1..(i - 1) :
                  /\ Starting(j, v) /\ ready[j].version # ready[i].version
                  /\ \A k \in (j + 1)..(i - 1) : ~ Starting(k, v)
      <4>1. PICK j \in 1..(i - 1) :
                  /\ Starting(j, v) /\ ready[j].version # ready[i].version
                  /\ \A k \in (j + 1)..(i - 1) : ~ Starting(k, v)
        BY <3>2
      <4>2. Starting(j, v)' /\ ready'[j].version # ready'[i].version
        BY <1>2, <2>1, <2>2, <4>1
      <4>3. \A k \in (j + 1)..(i - 1) : ~ Starting(k, v)'
        <5>1. \A k \in (j + 1)..(i - 1) : k \in 1..i
          BY <4>1
        <5> QED  BY <1>2, <4>1, <5>1
      <4> QED  BY <4>2, <4>3 DEF Superseded
    <3> QED  BY <2>4, <3>1, <3>2 DEF Superseded
  <2> QED  BY <1>2, <2>3, <2>4 DEF TextInv
<1>3. CASE Shutdown
  <2>1. /\ Len(ready') = Len(ready) /\ contents' = contents /\ table' = table
        /\ \A k \in 1..Len(ready) :
              /\ ready'[k].kind = ready[k].kind
              /\ ready[k].kind # "apt" => ready'[k] = ready[k]
    BY <1>3, ShutdownEffect DEF Shutdown, workspace
  <2>2. ASSUME NEW k \in 1..Len(ready)
        PROVE  /\ Starting(k, v)' <=> Starting(k, v)
               /\ Scanning(k, v)' <=> Scanning(k, v)
               /\ Starting(k, v) \/ Scanning(k, v) => ready'[k] = ready[k]
    <3>1. CASE ready[k].kind = "apt"
      BY <2>1, <3>1 DEF Starting, Scanning
    <3>2. CASE ready[k].kind # "apt"
      BY <2>1, <3>2 DEF Starting, Scanning
    <3> QED  BY <3>1, <3>2
  <2>3. i \in 1..Len(ready) /\ \A k \in 1..i : k \in 1..Len(ready)
    BY <1>0, <2>1
  <2> QED  BY <1>2, <2>1, <2>2, <2>3
<1>4. CASE UNCHANGED vars
  <2>1. contents' = contents /\ table' = table /\ ready' = ready
    BY <1>4 DEF vars, workspace
  <2> QED  BY <1>2, <2>1 DEF Starting, Scanning
<1>5. ASSUME NEW u \in Uri, DidClose(u)
      PROVE  \/ ready'[i].text \in contents'[v][ready'[i].version]
             \/ Superseded(i, v)'
  <2>1. /\ ready' = ready /\ table' = table
        /\ \A w \in 1..MaxMessages : contents[v][w] \subseteq contents'[v][w]
    BY <1>5, DidCloseEffect
  <2> QED  BY <1>2, <2>1 DEF Starting, Scanning
<1>6. ASSUME NEW u \in Uri, NEW text \in Text, DidOpen(u, text) \/ DidChange(u, text)
      PROVE  \/ ready'[i].text \in contents'[v][ready'[i].version]
             \/ Superseded(i, v)'
  <2>1. PICK version \in 1..MaxMessages : Received(u, version, text)
    BY <1>6, MessageForm
  <2>2. /\ Len(ready') = Len(ready) + 1
        /\ \A k \in 1..Len(ready) : ready'[k] = ready[k]
        /\ ready'[Len(ready) + 1] = [kind |-> "diagnose", uri |-> u, version |-> version,
                                     text |-> NoText, at |-> 0, last |-> -1]
        /\ \A w \in 1..MaxMessages : contents[v][w] \subseteq contents'[v][w]
    BY <2>1, ReceivedEffect
  <2>3. table' = table
    BY <1>6, MessageForm, MessageLeaves
  <2>4. i # Len(ready) + 1
    BY <2>2 DEF Scanning
  <2>5. i \in 1..Len(ready) /\ \A k \in 1..i : k \in 1..Len(ready)
    BY <1>0, <2>2, <2>4
  <2> QED  BY <1>2, <2>2, <2>3, <2>5 DEF Starting, Scanning
<1> QED  BY <1>1, <1>3, <1>4, <1>5, <1>6 DEF Next

\* What a document was is never forgotten.
LEMMA HistoriesGrow ==
    ASSUME TypeInv, DocInv, [Next]_vars
    PROVE  \A v \in Uri, w \in 1..MaxMessages : contents[v][w] \subseteq contents'[v][w]
<1>1. CASE RunTask \/ Shutdown \/ UNCHANGED vars
  BY <1>1, RunTaskFrame DEF Shutdown, workspace, vars
<1>2. ASSUME NEW u \in Uri, DidClose(u)
      PROVE  \A v \in Uri, w \in 1..MaxMessages : contents[v][w] \subseteq contents'[v][w]
  BY <1>2, DidCloseEffect
<1>3. ASSUME NEW u \in Uri, NEW text \in Text, DidOpen(u, text) \/ DidChange(u, text)
      PROVE  \A v \in Uri, w \in 1..MaxMessages : contents[v][w] \subseteq contents'[v][w]
  BY <1>3, MessageForm, ReceivedEffect
<1> QED  BY <1>1, <1>2, <1>3 DEF Next

\* Only PublishScan publishes.
LEMMA OnlyPublishes ==
    ASSUME TypeInv, [Next]_vars
    PROVE  PublishScan \/ shown' = shown
<1>1. CASE Shutdown \/ UNCHANGED vars
  BY <1>1 DEF Shutdown, vars
<1>2. CASE RunTask
  <2>1. CASE StartScan
    BY <2>1 DEF StartScan
  <2>2. CASE CancelScan \/ Initialize \/ LoadApt \/ CancelLoading
    BY <2>2, OtherEffect
  <2> QED  BY <1>2, <2>1, <2>2 DEF RunTask
<1>3. ASSUME NEW u \in Uri,
             DidClose(u) \/ \E text \in Text : DidOpen(u, text) \/ DidChange(u, text)
      PROVE  shown' = shown
  BY <1>3, MessageLeaves DEF DidClose, DidOpen, DidChange
<1> QED  BY <1>1, <1>2, <1>3 DEF Next

LEMMA PublishedStep ==
    ASSUME TypeInv, DocInv, AtInv, TextInv, ShownInv, PublishedMatchesVersion, [Next]_vars
    PROVE  ShownInv' /\ PublishedMatchesVersion'
<1>0. shown \in Publications
  BY DEF TypeInv
<1> SUFFICES ASSUME NEW v \in Uri, shown'[v] # Nothing
             PROVE  /\ shown'[v].version > 0
                    /\ shown'[v].text \in contents'[v][shown'[v].version]
  BY DEF ShownInv, PublishedMatchesVersion, Nothing
<1>1. \A w \in 1..MaxMessages : contents[v][w] \subseteq contents'[v][w]
  BY HistoriesGrow
<1>2. CASE shown'[v] = shown[v]
  <2>1. shown[v].version \in 1..MaxMessages
    BY <1>0, <1>2 DEF ShownInv, Publications
  <2> QED  BY <1>1, <1>2, <2>1 DEF PublishedMatchesVersion
<1>3. CASE shown'[v] # shown[v]
  <2>1. PublishScan
    BY <1>3, OnlyPublishes
  <2>2. PICK u, count :
          /\ u = ready[1].uri /\ 1 \in 1..Len(ready)
          /\ ready[1] \in ScanTasks /\ Scanning(1, u) /\ table[u] = ready[1].version
          /\ shown' = [shown EXCEPT ![u] =
                [version |-> ready[1].version, text |-> ready[1].text, count |-> count]]
    <3> DEFINE count == Yields(ready[1].uri, ready[1].text)[ready[1].at]
    <3>1. /\ Len(ready) \in Nat \ {0} /\ ready[1] \in ScanTasks
          /\ Scanning(1, ready[1].uri) /\ table[ready[1].uri] = ready[1].version
          /\ shown' = IF count = ready[1].last THEN shown
                      ELSE [shown EXCEPT ![ready[1].uri] =
                              [version |-> ready[1].version, text |-> ready[1].text,
                               count |-> count]]
      BY <2>1, PublishEffect
    <3> HIDE DEF count
    <3>2. 1 \in 1..Len(ready) /\ shown' # shown
      BY <1>3, <3>1
    <3> QED  BY <3>1, <3>2
  <2>3. v = u /\ ready[1].version \in 1..MaxMessages
    BY <1>0, <1>3, <2>2 DEF Publications, ScanTasks
  <2>4. /\ shown'[v].version = ready[1].version
        /\ shown'[v].text = ready[1].text
    BY <1>0, <2>2, <2>3 DEF Publications
  <2>5. ~ Superseded(1, v)
    BY <2>2, <2>3 DEF Superseded
  <2>6. ready[1].text \in contents[v][ready[1].version]
    BY <2>2, <2>3, <2>5 DEF TextInv
  <2> QED  BY <1>1, <2>3, <2>4, <2>6
<1> QED  BY <1>2, <1>3

-----------------------------------------------------------------------------
(* The packages in the index.                                               *)

IsNewest(i, n) ==
    /\ i \in 1..n
    /\ \A j \in 1..n : Index[j].name = Index[i].name =>
          \/ Index[j].version < Index[i].version
          \/ Index[j].version = Index[i].version /\ j <= i

\* Every package has a newest one of its name.
Covered(n) ==
    \A j \in 1..n : \E i \in 1..n :
        /\ IsNewest(i, n) /\ Index[i].name = Index[j].name
        /\ Index[j].version <= Index[i].version

LEMMA Versions ==
    /\ Len(Index) \in Nat
    /\ \A i \in 1..Len(Index) : Index[i].version \in Int /\ Index[i] \in Range(Index)
<1>1. \A i \in 1..Len(Index) : Index[i] \in Range(Index)
  BY ServerAssumption, ElementOfSeq DEF ServerAssumption
<1> QED  BY <1>1, ServerAssumption DEF ServerAssumption

LEMMA NewestIsOne ==
    ASSUME NEW n \in 0..Len(Index), NEW i, NEW k, IsNewest(i, n), IsNewest(k, n),
           Index[i].name = Index[k].name
    PROVE  i = k
<1>1. /\ i \in 1..Len(Index) /\ k \in 1..Len(Index)
  BY Versions DEF IsNewest
<1>2. Index[i].version \in Int /\ Index[k].version \in Int
  BY <1>1, Versions
<1>3. /\ \/ Index[k].version < Index[i].version
         \/ Index[k].version = Index[i].version /\ k <= i
      /\ \/ Index[i].version < Index[k].version
         \/ Index[i].version = Index[k].version /\ i <= k
  BY DEF IsNewest
<1> QED  BY <1>1, <1>2, <1>3

\* How the newest change when one more package is looked at.
LEMMA NewestStep ==
    ASSUME NEW n \in 1..Len(Index), NEW i \in 1..(n - 1)
    PROVE  IsNewest(i, n) <=> /\ IsNewest(i, n - 1)
                              /\ \/ Index[n].name # Index[i].name
                                 \/ Index[n].version < Index[i].version
<1>1. n \in 1..n /\ ~ (n <= i) /\ i \in 1..n /\ \A j \in 1..n : j \in 1..(n - 1) \/ j = n
  BY Versions
<1>2. \A j \in 1..(n - 1) : j \in 1..n
  BY Versions
<1> QED  BY <1>1, <1>2 DEF IsNewest

LEMMA LastIsNewest ==
    ASSUME NEW n \in 1..Len(Index), Covered(n - 1)
    PROVE  IsNewest(n, n) <=>
               \A i \in 1..(n - 1) : IsNewest(i, n - 1) /\ Index[i].name = Index[n].name =>
                                        ~ (Index[n].version < Index[i].version)
<1>1. n \in 1..n /\ \A j \in 1..n : j <= n /\ (j \in 1..(n - 1) \/ j = n)
  BY Versions
<1>2. \A j \in 1..n : Index[j].version \in Int
  BY Versions
<1>3. \A j \in 1..(n - 1) : j \in 1..n
  BY Versions
<1>4. ASSUME IsNewest(n, n), NEW i \in 1..(n - 1), Index[i].name = Index[n].name
      PROVE  ~ (Index[n].version < Index[i].version)
  BY <1>1, <1>2, <1>3, <1>4 DEF IsNewest
<1>5. ASSUME \A i \in 1..(n - 1) : IsNewest(i, n - 1) /\ Index[i].name = Index[n].name =>
                                      ~ (Index[n].version < Index[i].version)
      PROVE  IsNewest(n, n)
  <2>1. ASSUME NEW j \in 1..n, Index[j].name = Index[n].name
        PROVE  Index[j].version < Index[n].version \/ Index[j].version = Index[n].version
    <3>1. CASE j = n
      BY <3>1
    <3>2. CASE j # n
      <4>1. j \in 1..(n - 1)
        BY <1>1, <3>2
      <4>2. PICK i \in 1..(n - 1) : /\ IsNewest(i, n - 1) /\ Index[i].name = Index[j].name
                                    /\ Index[j].version <= Index[i].version
        BY <4>1 DEF Covered
      <4>3. ~ (Index[n].version < Index[i].version)
        BY <1>5, <2>1, <4>2
      <4>4. Index[i].version \in Int /\ Index[j].version \in Int /\ Index[n].version \in Int
        BY <1>1, <1>2, <1>3
      <4> QED  BY <4>2, <4>3, <4>4
    <3> QED  BY <3>1, <3>2
  <2> QED  BY <1>1, <2>1 DEF IsNewest
<1> QED  BY <1>4, <1>5

LEMMA AllCovered == \A n \in 0..Len(Index) : Covered(n)
<1> DEFINE Bad == {n \in 0..Len(Index) : ~ Covered(n)}
<1> SUFFICES ASSUME Bad # {} PROVE FALSE
  OBVIOUS
<1>0. Bad \in SUBSET Nat
  BY Versions
<1>1. PICK n \in Bad : \A m \in Bad : n <= m
  <2> HIDE DEF Bad
  <2> QED  BY <1>0, LeastExists
<1>2. n \in 0..Len(Index) /\ ~ Covered(n)
  BY <1>1
<1>3. n # 0
  BY <1>2 DEF Covered
<1>4. n \in 1..Len(Index) /\ Covered(n - 1)
  <2>1. n \in 1..Len(Index) /\ n - 1 \in 0..Len(Index) /\ ~ (n <= n - 1)
    BY <1>2, <1>3, Versions
  <2>2. n - 1 \notin Bad
    <3> HIDE DEF Bad
    <3> QED  BY <1>1, <2>1
  <2> QED  BY <2>1, <2>2
<1>5. /\ \A j \in 1..n : Index[j].version \in Int /\ (j \in 1..(n - 1) \/ j = n)
      /\ \A j \in 1..(n - 1) : j \in 1..n
      /\ n \in 1..n
  BY <1>4, Versions
<1>6. ASSUME NEW j \in 1..n
      PROVE  \E i \in 1..n : /\ IsNewest(i, n) /\ Index[i].name = Index[j].name
                             /\ Index[j].version <= Index[i].version
  <2>1. CASE IsNewest(n, n) /\ Index[j].name = Index[n].name
    <3>1. Index[j].version <= Index[n].version
      BY <1>5, <2>1 DEF IsNewest
    <3> QED  BY <1>5, <2>1, <3>1
  <2>2. CASE ~ IsNewest(n, n) /\ Index[j].name = Index[n].name
    <3>1. PICK i \in 1..(n - 1) : /\ IsNewest(i, n - 1) /\ Index[i].name = Index[n].name
                                  /\ Index[n].version < Index[i].version
      BY <1>4, <2>2, LastIsNewest
    <3>2. IsNewest(i, n)
      BY <1>4, <3>1, NewestStep
    <3>3. CASE j = n
      BY <1>5, <3>1, <3>2, <3>3
    <3>4. CASE j # n
      <4>1. PICK k \in 1..(n - 1) : /\ IsNewest(k, n - 1) /\ Index[k].name = Index[j].name
                                    /\ Index[j].version <= Index[k].version
        BY <1>4, <1>5, <3>4 DEF Covered
      <4>2. k = i
        <5>1. n - 1 \in 0..Len(Index)
          BY <1>4, Versions
        <5> QED  BY <2>2, <3>1, <4>1, <5>1, NewestIsOne
      <4> QED  BY <1>5, <3>2, <4>1, <4>2
    <3> QED  BY <3>3, <3>4
  <2>3. CASE Index[j].name # Index[n].name
    <3>1. PICK k \in 1..(n - 1) : /\ IsNewest(k, n - 1) /\ Index[k].name = Index[j].name
                                  /\ Index[j].version <= Index[k].version
      BY <1>4, <1>5, <2>3 DEF Covered
    <3>2. IsNewest(k, n)
      BY <1>4, <2>3, <3>1, NewestStep
    <3> QED  BY <1>5, <3>1, <3>2
  <2> QED  BY <2>1, <2>2, <2>3
<1> QED  BY <1>2, <1>6 DEF Covered

LEMMA WithNext ==
    ASSUME NEW n \in 1..Len(Index)
    PROVE  WithPackage(NewestOf(n - 1), Index[n]) = NewestOf(n)
<1> DEFINE found == NewestOf(n - 1)
           p == Index[n]
<1>0. /\ NewestOf(n) = {Index[i] : i \in {i \in 1..n : IsNewest(i, n)}}
      /\ found = {Index[i] : i \in {i \in 1..(n - 1) : IsNewest(i, n - 1)}}
  BY DEF NewestOf, IsNewest
<1>1. Covered(n - 1) /\ n - 1 \in 0..Len(Index)
  BY AllCovered, Versions
<1>2. /\ \A j \in 1..n : Index[j].version \in Int /\ (j \in 1..(n - 1) \/ j = n)
      /\ \A j \in 1..(n - 1) : j \in 1..n
      /\ n \in 1..n
  BY Versions
<1> HIDE DEF found
<1>3. IsNewest(n, n) <=> ~ \E q \in found : q.name = p.name /\ p.version < q.version
  BY <1>0, <1>1, LastIsNewest
<1>4. \A i \in 1..(n - 1) :
         IsNewest(i, n) <=> IsNewest(i, n - 1) /\ (p.name # Index[i].name \/ p.version < Index[i].version)
  BY NewestStep
<1>5. CASE \E q \in found : q.name = p.name /\ p.version < q.version
  <2>1. PICK k \in 1..(n - 1) : /\ IsNewest(k, n - 1) /\ Index[k].name = p.name
                                /\ p.version < Index[k].version
    BY <1>0, <1>5
  <2>2. \A i \in 1..(n - 1) : IsNewest(i, n - 1) /\ p.name = Index[i].name => i = k
    BY <1>1, <2>1, NewestIsOne
  <2>3. \A i \in 1..(n - 1) : IsNewest(i, n) <=> IsNewest(i, n - 1)
    BY <1>4, <2>1, <2>2
  <2>4. NewestOf(n) = found
    BY <1>0, <1>2, <1>3, <1>5, <2>3
  <2> QED  BY <1>5, <2>4 DEF WithPackage, found
<1>6. CASE ~ \E q \in found : q.name = p.name /\ p.version < q.version
  <2>1. \A i \in 1..(n - 1) : IsNewest(i, n) <=> IsNewest(i, n - 1) /\ p.name # Index[i].name
    BY <1>0, <1>4, <1>6
  <2>2. NewestOf(n) = {q \in found : q.name # p.name} \cup {p}
    <3>1. ASSUME NEW q \in NewestOf(n)  PROVE q \in {r \in found : r.name # p.name} \cup {p}
      BY <1>0, <1>2, <2>1
    <3>2. ASSUME NEW q \in found, q.name # p.name  PROVE q \in NewestOf(n)
      BY <1>0, <1>2, <2>1, <3>2
    <3>3. p \in NewestOf(n)
      BY <1>0, <1>2, <1>3, <1>6
    <3> QED  BY <3>1, <3>2, <3>3
  <2> QED  BY <1>6, <2>2 DEF WithPackage, found
<1> QED  BY <1>5, <1>6

LEMMA HoverFromIndex ==
    ASSUME IndexInv
    PROVE  HoverIsRight
<1> SUFFICES ASSUME NEW n, Hover(n).says = "packages"
             PROVE  /\ Hover(n).package = {p \in Newest : p.name = n}
                    /\ Hover(n).providedBy = {p \in Newest : n \in p.provides}
  BY DEF HoverIsRight
<1> DEFINE found == {l \in lookups : l.name = n}
<1>1. /\ Hover(n).package = UNION {l.package : l \in found}
      /\ Hover(n).providedBy = UNION {l.providedBy : l \in found}
  BY DEF Hover
<1>2. aptState = "loaded"
  BY DEF Hover
<1>3. lookups = Lookups(Newest)
  BY <1>2 DEF IndexInv
<1> DEFINE names == {p.name : p \in Newest} \cup UNION {p.provides : p \in Newest}
           entry(m) == [name |-> m, package |-> {p \in Newest : p.name = m},
                        providedBy |-> {p \in Newest : m \in p.provides}]
<1>4. lookups = {entry(m) : m \in names}
  BY <1>3, Zenon DEF Lookups
<1>5. CASE n \in names
  <2>1. found = {entry(n)}
    BY <1>4, <1>5
  <2>2. /\ entry(n).package = {p \in Newest : p.name = n}
        /\ entry(n).providedBy = {p \in Newest : n \in p.provides}
    OBVIOUS
  <2> HIDE DEF entry, found
  <2>3. /\ UNION {l.package : l \in found} = entry(n).package
        /\ UNION {l.providedBy : l \in found} = entry(n).providedBy
    BY <2>1
  <2> QED  BY <1>1, <2>2, <2>3
<1>6. CASE n \notin names
  <2>1. found = {}
    BY <1>4, <1>6
  <2>2. {p \in Newest : p.name = n} = {} /\ {p \in Newest : n \in p.provides} = {}
    BY <1>6
  <2> HIDE DEF found
  <2>3. UNION {l.package : l \in found} = {} /\ UNION {l.providedBy : l \in found} = {}
    BY <2>1
  <2> QED  BY <1>1, <2>2, <2>3
<1> QED  BY <1>5, <1>6

\* What the tasks of the cache do to it.
LEMMA LoadEffect ==
    ASSUME TypeInv, IndexInv, LoadApt
    PROVE  /\ ready[1].kind = "apt" /\ Len(ready) \in Nat \ {0}
           /\ \A i \in 1..(Len(ready) - 1) : ready'[i] = ready[i + 1]
           /\ \/ /\ Len(ready') = Len(ready) /\ ready[1].at + 1 \in 0..Len(Index)
                 /\ ready'[Len(ready)].kind = "apt"
                 /\ ready'[Len(ready)].at = ready[1].at + 1
                 /\ packages' = NewestOf(ready[1].at) /\ aptState' = "loading"
              \/ /\ Len(ready') = Len(ready) - 1
                 /\ aptState' = "loaded" /\ lookups' = Lookups(Newest)
              \/ /\ Len(ready') = Len(ready) - 1
                 /\ aptState' # "loaded"
<1>1. /\ ready # <<>> /\ Task = ready[1] /\ Task \in Tasks /\ Task.kind = "apt"
      /\ Len(ready) \in Nat \ {0} /\ ready \in Seq(Tasks) /\ 1 \in 1..Len(ready)
  BY TaskType DEF LoadApt, Running, TypeInv
<1>2. Task \in [kind : {"apt"}, at : Nat, cancelled : BOOLEAN]
  BY <1>1, TasksByKind
<1>3. /\ Task.at \in 0..Len(Index)
      /\ packages = NewestOf(IF Task.at = 0 THEN 0 ELSE Task.at - 1)
  BY <1>1 DEF IndexInv
<1> DEFINE found == IF Task.at = 0 THEN packages ELSE WithPackage(packages, Index[Task.at])
           t == [Task EXCEPT !.at = Task.at + 1]
<1>4. found = NewestOf(Task.at)
  <2>1. CASE Task.at = 0
    BY <1>3, <2>1
  <2>2. CASE Task.at # 0
    <3>1. Task.at \in 1..Len(Index)
      BY <1>3, <2>2, Versions
    <3> QED  BY <1>3, <2>2, <3>1, WithNext
  <2> QED  BY <2>1, <2>2
<1>5. LoadUpTo(Task.at + 1, found)
  BY DEF LoadApt
<1> HIDE DEF found
<1>6. t \in Tasks /\ t.kind = "apt" /\ t.at = Task.at + 1
  BY <1>2 DEF Tasks
<1>7. CASE /\ Task.at + 1 <= Len(Index) /\ aptState' = "loading" /\ packages' = found
           /\ ready' = Append(Tail(ready), t)
  <2>1. Task.at + 1 \in 0..Len(Index)
    BY <1>3, <1>7, Versions
  <2> HIDE DEF t
  <2>2. /\ Len(ready') = Len(ready) /\ ready'[Len(ready)] = t
        /\ \A i \in 1..(Len(ready) - 1) : ready'[i] = ready[i + 1]
    BY <1>1, <1>6, <1>7, Rotated
  <2>3. /\ ready'[Len(ready)].kind = "apt" /\ ready'[Len(ready)].at = ready[1].at + 1
        /\ packages' = NewestOf(ready[1].at) /\ ready[1].at + 1 \in 0..Len(Index)
        /\ ready[1].kind = "apt" /\ aptState' = "loading"
    BY <1>1, <1>4, <1>6, <1>7, <2>1, <2>2
  <2> QED  BY <1>1, <2>2, <2>3, Zenon
<1>8. CASE /\ ready' = Tail(ready)
           /\ \/ /\ Task.at + 1 > Len(Index) /\ aptState' = "loaded"
                 /\ lookups' = Lookups(found)
              \/ aptState' # "loaded"
  <2>1. /\ Len(ready') = Len(ready) - 1
        /\ \A i \in 1..(Len(ready) - 1) : ready'[i] = ready[i + 1]
    BY <1>1, <1>8, NextTasks
  <2>2. Task.at + 1 > Len(Index) => found = Newest
    <3>1. ASSUME Task.at + 1 > Len(Index)  PROVE Task.at = Len(Index)
      BY <1>3, <3>1, Versions
    <3>2. NewestOf(Len(Index)) = Newest
      BY DEF NewestOf, Newest
    <3> QED  BY <1>4, <3>1, <3>2
  <2>3. ready[1].kind = "apt" /\ Len(ready) \in Nat \ {0}
    BY <1>1
  <2>4. aptState' = "loaded" => lookups' = Lookups(Newest)
    BY <1>8, <2>2
  <2> QED  BY <2>1, <2>3, <2>4, Zenon
<1>9. \A fault \in LoadFaults : FinalStateOf[fault] # "loaded"
  BY ServerAssumption DEF ServerAssumption, FinalStateOf
<1> QED  BY <1>5, <1>7, <1>8, <1>9 DEF LoadUpTo, Sleep, EndTask

LEMMA IndexStep ==
    ASSUME TypeInv, DocInv, AtInv, IndexInv, [Next]_vars
    PROVE  IndexInv'
<1> DEFINE Good(t) ==
             /\ t.kind = "initialize" => packages = {}
             /\ t.kind = "apt" => /\ t.at \in 0..Len(Index)
                                  /\ packages = NewestOf(IF t.at = 0 THEN 0 ELSE t.at - 1)
           Other(t) == t.kind # "diagnose"
<1>0. /\ Len(ready) \in Nat
      /\ IndexInv <=> /\ aptState = "loaded" => lookups = Lookups(Newest)
                      /\ \A i \in 1..Len(ready) : Good(ready[i])
                      /\ \A i, j \in 1..Len(ready) : Other(ready[i]) /\ Other(ready[j]) => i = j
  BY DEF IndexInv, TypeInv
<1>1. CASE LoadApt
  <2>1. \A i \in 1..(Len(ready) - 1) : ~ Other(ready'[i])
    <3>1. Len(ready) \in Nat \ {0} /\ Other(ready[1])
      BY <1>1, LoadEffect
    <3>2. \A i \in 1..(Len(ready) - 1) : i + 1 \in 1..Len(ready) /\ i + 1 # 1 /\ 1 \in 1..Len(ready)
      BY <3>1
    <3> QED  BY <1>0, <1>1, <3>1, <3>2, LoadEffect
  <2>2. CASE /\ Len(ready') = Len(ready) /\ ready[1].at + 1 \in 0..Len(Index)
             /\ ready'[Len(ready)].kind = "apt"
             /\ ready'[Len(ready)].at = ready[1].at + 1
             /\ packages' = NewestOf(ready[1].at) /\ aptState' = "loading"
    <3>1. ready[1].at \in Nat
      <4>1. 1 \in 1..Len(ready) /\ ready[1].kind = "apt"
        BY <1>1, LoadEffect
      <4> QED  BY <4>1 DEF IndexInv
    <3>2. /\ ready[1].at + 1 # 0 /\ (ready[1].at + 1) - 1 = ready[1].at
      BY <3>1
    <3>3. /\ packages' = NewestOf(IF ready'[Len(ready)].at = 0 THEN 0 ELSE ready'[Len(ready)].at - 1)
          /\ ready'[Len(ready)].at \in 0..Len(Index)
      BY <2>2, <3>2
    <3>4. ASSUME NEW i \in 1..Len(ready')
          PROVE  /\ ready'[i].kind = "initialize" => packages' = {}
                 /\ ready'[i].kind = "apt" =>
                       /\ ready'[i].at \in 0..Len(Index)
                       /\ packages' = NewestOf(IF ready'[i].at = 0 THEN 0 ELSE ready'[i].at - 1)
      <4>1. CASE i \in 1..(Len(ready) - 1)
        BY <2>1, <4>1
      <4>2. CASE i = Len(ready)
        BY <2>2, <3>3, <4>2
      <4> QED  BY <1>0, <2>2, <4>1, <4>2
    <3>5. ASSUME NEW i \in 1..Len(ready'), NEW j \in 1..Len(ready'), Other(ready'[i]), Other(ready'[j])
          PROVE  i = j
      BY <1>0, <2>1, <2>2, <3>5
    <3> QED  BY <2>2, <3>4, <3>5 DEF IndexInv
  <2>3. CASE /\ Len(ready') = Len(ready) - 1
             /\ aptState' = "loaded" => lookups' = Lookups(Newest)
    BY <1>0, <2>1, <2>3 DEF IndexInv
  <2> QED  BY <1>1, <2>2, <2>3, LoadEffect
<1>2. ASSUME aptState' = aptState, packages' = packages, lookups' = lookups,
             Len(ready') \in {Len(ready) - 1, Len(ready)}, Len(ready) \in Nat \ {0},
             \A i \in 1..(Len(ready) - 1) : ready'[i] = ready[i + 1],
             Len(ready') = Len(ready) =>
                 \/ ~ Other(ready'[Len(ready)])
                 \/ /\ Other(ready[1]) /\ ready'[Len(ready)].kind = "apt"
                    /\ ready'[Len(ready)].at = 0 /\ packages = {}
      PROVE  IndexInv'
  <2>1. \A i \in 1..(Len(ready) - 1) : i + 1 \in 1..Len(ready) /\ i + 1 # 1 /\ 1 \in 1..Len(ready)
    BY <1>2
  <2>2. NewestOf(0) = {}
    BY DEF NewestOf
  <2>3. 0 \in 0..Len(Index)
    BY Versions
  <2>4. \A i \in 1..(Len(ready) - 1) :
            packages = packages' /\ ready'[i] = ready[i + 1] /\ i + 1 \in 1..Len(ready)
    BY <1>2, <2>1
  <2>5. ASSUME NEW i \in 1..Len(ready')
        PROVE  /\ ready'[i].kind = "initialize" => packages' = {}
               /\ ready'[i].kind = "apt" =>
                     /\ ready'[i].at \in 0..Len(Index)
                     /\ packages' = NewestOf(IF ready'[i].at = 0 THEN 0 ELSE ready'[i].at - 1)
    <3>1. CASE i \in 1..(Len(ready) - 1)
      BY <2>4, <3>1 DEF IndexInv
    <3>2. CASE i \notin 1..(Len(ready) - 1)
      <4>1. i = Len(ready) /\ Len(ready') = Len(ready)
        BY <1>2, <3>2
      <4> QED  BY <1>2, <2>2, <2>3, <4>1
    <3> QED  BY <3>1, <3>2
  <2>6. ASSUME NEW i \in 1..Len(ready'), NEW j \in 1..Len(ready'), i # j,
               Other(ready'[i]), Other(ready'[j])
        PROVE  FALSE
    <3>1. CASE i \in 1..(Len(ready) - 1) /\ j \in 1..(Len(ready) - 1)
      <4>1. i + 1 \in 1..Len(ready) /\ j + 1 \in 1..Len(ready) /\ i + 1 # j + 1
        BY <2>1, <2>6, <3>1
      <4> QED  BY <1>0, <2>4, <2>6, <3>1, <4>1
    <3>2. ASSUME NEW k \in 1..(Len(ready) - 1), Other(ready'[k]),
                 Len(ready') = Len(ready), Other(ready'[Len(ready)])
          PROVE  FALSE
      BY <1>0, <1>2, <2>1, <2>4, <3>2
    <3>3. \A k \in 1..Len(ready') :
            \/ k \in 1..(Len(ready) - 1)
            \/ k = Len(ready) /\ Len(ready') = Len(ready)
      BY <1>2
    <3> QED  BY <2>6, <3>1, <3>2, <3>3
  <2> QED  BY <1>0, <1>2, <2>5, <2>6 DEF IndexInv
<1>3. CASE StartScan
  BY <1>2, <1>3, StartScanEffect DEF ScanTasks, StartScan, ScanLeavesAlone, apt
<1>4. CASE PublishScan
  <2>1. /\ Len(ready) \in Nat \ {0} /\ Len(ready') \in {Len(ready) - 1, Len(ready)}
        /\ \A i \in 1..(Len(ready) - 1) : ready'[i] = ready[i + 1]
        /\ Len(ready') = Len(ready) => ready'[Len(ready)] \in ScanTasks
    BY <1>4, PublishEffect
  <2> QED  BY <1>2, <1>4, <2>1 DEF ScanTasks, PublishScan, ScanLeavesAlone, apt
<1>5. CASE CancelScan \/ CancelLoading
  <2>1. /\ ready \in Seq(Tasks) /\ ready # <<>> /\ ready' = Tail(ready)
        /\ aptState' = aptState /\ packages' = packages /\ lookups' = lookups
    BY <1>5 DEF CancelScan, CancelLoading, Running, EndTask, ScanLeavesAlone, apt, TypeInv
  <2>2. /\ Len(ready) \in Nat \ {0} /\ Len(ready') = Len(ready) - 1
        /\ \A i \in 1..(Len(ready) - 1) : ready'[i] = ready[i + 1]
    BY <2>1, NextTasks
  <2>3. Len(ready') # Len(ready) /\ Len(ready') \in {Len(ready) - 1, Len(ready)}
    BY <2>2
  <2> QED  BY <1>2, <2>1, <2>2, <2>3, Zenon
<1>6. CASE Initialize
  <2> DEFINE t == [kind |-> "apt", at |-> 0, cancelled |-> FALSE]
  <2>1. /\ ready \in Seq(Tasks) /\ ready # <<>> /\ ready' = Append(Tail(ready), t)
        /\ aptState' = aptState /\ packages' = packages /\ lookups' = lookups
        /\ Task.kind = "initialize"
    BY <1>6 DEF Initialize, Running, Sleep, apt, TypeInv
  <2>2. t \in Tasks /\ t.kind = "apt" /\ t.at = 0
    BY DEF Tasks
  <2> HIDE DEF t
  <2>3. /\ Len(ready) \in Nat \ {0} /\ Len(ready') = Len(ready) /\ Task = ready[1]
        /\ \A i \in 1..(Len(ready) - 1) : ready'[i] = ready[i + 1]
        /\ ready'[Len(ready)] = t
    BY <2>1, <2>2, TaskType, Rotated
  <2>4. 1 \in 1..Len(ready) /\ packages = {}
    BY <2>1, <2>3 DEF IndexInv
  <2> QED  BY <1>2, <2>1, <2>2, <2>3, <2>4
<1>7. ASSUME aptState' = aptState, packages' = packages, lookups' = lookups,
             Len(ready') \in {Len(ready), Len(ready) + 1},
             \A i \in 1..Len(ready) : /\ ready'[i].kind = ready[i].kind
                                      /\ ready[i].kind = "apt" => ready'[i].at = ready[i].at,
             Len(ready') = Len(ready) + 1 => ~ Other(ready'[Len(ready) + 1])
      PROVE  IndexInv'
  <2>1. \A i \in 1..Len(ready') :
           \/ i \in 1..Len(ready)
           \/ Len(ready') = Len(ready) + 1 /\ i = Len(ready) + 1
    BY <1>0, <1>7
  <2>2. ASSUME NEW i \in 1..Len(ready'), Other(ready'[i])
        PROVE  i \in 1..Len(ready) /\ Other(ready[i])
    BY <1>7, <2>1, <2>2
  <2>3. ASSUME NEW i \in 1..Len(ready')
        PROVE  /\ ready'[i].kind = "initialize" => packages' = {}
               /\ ready'[i].kind = "apt" =>
                     /\ ready'[i].at \in 0..Len(Index)
                     /\ packages' = NewestOf(IF ready'[i].at = 0 THEN 0 ELSE ready'[i].at - 1)
    BY <1>7, <2>2 DEF IndexInv
  <2> QED  BY <1>0, <1>7, <2>2, <2>3 DEF IndexInv
<1>8. CASE Shutdown
  <2>1. aptState' = aptState /\ packages' = packages /\ lookups' = lookups
    BY <1>8 DEF Shutdown, apt
  <2>2. /\ Len(ready') = Len(ready) /\ Len(ready) # Len(ready) + 1
        /\ \A i \in 1..Len(ready) : /\ ready'[i].kind = ready[i].kind
                                    /\ ready[i].kind = "apt" => ready'[i].at = ready[i].at
    BY <1>8, ShutdownEffect
  <2> QED  BY <1>7, <2>1, <2>2
<1>9. ASSUME NEW u \in Uri, DidClose(u)  PROVE IndexInv'
  <2>1. /\ ready' = ready /\ Len(ready) # Len(ready) + 1
        /\ aptState' = aptState /\ packages' = packages /\ lookups' = lookups
    BY <1>0, <1>9, DidCloseEffect, MessageLeaves DEF DidClose
  <2> QED  BY <1>7, <2>1
<1>10. ASSUME NEW u \in Uri, NEW text \in Text, DidOpen(u, text) \/ DidChange(u, text)
       PROVE  IndexInv'
  <2>1. PICK version \in 1..MaxMessages : Received(u, version, text)
    BY <1>10, MessageForm
  <2>2. /\ Len(ready') = Len(ready) + 1
        /\ \A k \in 1..Len(ready) : ready'[k] = ready[k]
        /\ ready'[Len(ready) + 1] = [kind |-> "diagnose", uri |-> u, version |-> version,
                                     text |-> NoText, at |-> 0, last |-> -1]
    BY <2>1, ReceivedEffect
  <2>3. aptState' = aptState /\ packages' = packages /\ lookups' = lookups
    BY <1>10, MessageForm, MessageLeaves
  <2> QED  BY <1>7, <2>2, <2>3
<1>11. CASE UNCHANGED vars
  BY <1>11 DEF vars, apt, IndexInv
<1> QED  BY <1>1, <1>3, <1>4, <1>5, <1>6, <1>8, <1>9, <1>10, <1>11 DEF Next, RunTask

-----------------------------------------------------------------------------
(* The order of what is published.                                          *)

\* The same with the queue, the version in the table, the version of the
\* document and what is shown as parameters.
Begins(t, u) == t.kind = "diagnose" /\ t.uri = u /\ t.at = 0
Scans(t, u) == t.kind = "diagnose" /\ t.uri = u /\ t.at > 0
InOrder(t, u, inTable, current, showing) ==
    /\ Begins(t, u) => inTable < t.version /\ t.version <= current
    /\ Scans(t, u) => t.version <= inTable
    /\ Scans(t, u) /\ t.version = inTable =>
          IF t.last = -1 THEN showing.version < inTable
          ELSE showing = [version |-> inTable, text |-> t.text, count |-> t.last]
Apart(s, t, u) ==
    /\ Begins(s, u) /\ Begins(t, u) => s.version < t.version
    /\ Scans(s, u) /\ Scans(t, u) => s.version # t.version
Ordered(q, u, inTable, current, showing) ==
    /\ inTable <= current
    /\ showing.version <= inTable
    /\ \A i \in 1..Len(q) : InOrder(q[i], u, inTable, current, showing)
    /\ \A i, j \in 1..Len(q) : i < j => Apart(q[i], q[j], u)

LEMMA OrderForm ==
    OrderInv <=> \A u \in Uri : Ordered(ready, u, table[u], doc[u].version, shown[u])
BY DEF OrderInv, Ordered, InOrder, Apart, Begins, Scans, Starting, Scanning

\* A queue of length n moves up, perhaps with something at its end: what is
\* there is in order with the rest.
Follows(r, q, n, u, inTable, current, showing) ==
    /\ Len(r) \in {n - 1, n}
    /\ \A i \in 1..(n - 1) : r[i] = q[i + 1]
    /\ inTable <= current
    /\ showing.version <= inTable
    /\ \A i \in 2..n : InOrder(q[i], u, inTable, current, showing)
    /\ \A i, j \in 1..n : i < j => Apart(q[i], q[j], u)
    /\ Len(r) = n => /\ InOrder(r[n], u, inTable, current, showing)
                     /\ \A i \in 2..n : Apart(q[i], r[n], u)

LEMMA MovedUp ==
    ASSUME NEW n \in Nat \ {0}, NEW q, NEW r,
           NEW u, NEW inTable, NEW current, NEW showing,
           Follows(r, q, n, u, inTable, current, showing)
    PROVE  Ordered(r, u, inTable, current, showing)
<1>2. \A i \in 1..Len(r) : \/ i \in 1..(n - 1) /\ i + 1 \in 2..n /\ i + 1 \in 1..n
                           \/ i = n /\ Len(r) = n
  BY DEF Follows
<1>3. ASSUME NEW i \in 1..Len(r)
      PROVE  InOrder(r[i], u, inTable, current, showing)
  BY <1>2 DEF Follows
<1>4. ASSUME NEW i \in 1..Len(r), NEW j \in 1..Len(r), i < j
      PROVE  Apart(r[i], r[j], u)
  <2>1. i \in 1..(n - 1) /\ i + 1 \in 2..n /\ i + 1 \in 1..n
    BY <1>2, <1>4
  <2>2. CASE j \in 1..(n - 1)
    <3>1. j + 1 \in 1..n /\ i + 1 < j + 1
      BY <1>4, <2>1, <2>2
    <3> QED  BY <2>1, <2>2, <3>1 DEF Follows
  <2>3. CASE j = n /\ Len(r) = n
    BY <2>1, <2>3 DEF Follows
  <2> QED  BY <1>2, <2>2, <2>3
<1> QED  BY <1>3, <1>4 DEF Ordered, Follows

\* A task of another document, or of none, does not matter.
LEMMA Foreign ==
    ASSUME NEW t, NEW u, ~ (t.kind = "diagnose" /\ t.uri = u)
    PROVE  /\ \A inTable, current, showing : InOrder(t, u, inTable, current, showing)
           /\ \A s : Apart(s, t, u) /\ Apart(t, s, u)
BY DEF InOrder, Apart, Begins, Scans

LEMMA OrderTypes ==
    ASSUME TypeInv, NEW u \in Uri
    PROVE  /\ ready \in Seq(Tasks) /\ Len(ready) \in Nat
           /\ table[u] \in Nat /\ doc[u].version \in Nat /\ shown[u].version \in Nat
           /\ \A i \in 1..Len(ready) :
                 Begins(ready[i], u) \/ Scans(ready[i], u) =>
                     /\ ready[i] \in ScanTasks
                     /\ ready[i].version \in Nat /\ ready[i].at \in Nat /\ ready[i].last \in Int
<1>1. ready \in Seq(Tasks) /\ \A i \in 1..Len(ready) : ready[i] \in Tasks
  BY ElementOfSeq DEF TypeInv
<1>2. ASSUME NEW i \in 1..Len(ready), Begins(ready[i], u) \/ Scans(ready[i], u)
      PROVE  /\ ready[i] \in ScanTasks
             /\ ready[i].version \in Nat /\ ready[i].at \in Nat /\ ready[i].last \in Int
  <2>1. ready[i] \in ScanTasks
    BY <1>1, <1>2, TasksByKind DEF Begins, Scans
  <2> QED  BY <2>1 DEF ScanTasks
<1>3. table[u] \in Nat /\ doc[u].version \in Nat /\ shown[u].version \in Nat
  BY DEF TypeInv, Docs, Publications
<1> QED  BY <1>1, <1>2, <1>3

LEMMA StartOrder ==
    ASSUME TypeInv, AtInv, OrderInv, StartScan, NEW v \in Uri
    PROVE  Ordered(ready', v, table'[v], doc[v].version, shown[v])
<1>0. PICK n \in Nat \ {0} : n = Len(ready)
  BY StartScanEffect
<1>1. /\ ready \in Seq(Tasks) /\ ready # <<>> /\ 1 \in 1..n
      /\ Len(ready') \in {n - 1, n}
      /\ \A i \in 1..(n - 1) : ready'[i] = ready[i + 1]
  BY <1>0, StartScanEffect DEF TypeInv, StartScan, Running
<1>2. /\ ready[1] \in ScanTasks /\ ready[1].uri \in Uri /\ ready[1].version \in Nat
      /\ Starting(1, ready[1].uri)
      /\ table' = [table EXCEPT ![ready[1].uri] = ready[1].version]
  BY StartScanEffect DEF ScanTasks
<1>3. Ordered(ready, v, table[v], doc[v].version, shown[v])
  BY OrderForm
<1>4. /\ table[v] <= doc[v].version /\ shown[v].version <= table[v]
      /\ \A i \in 1..n : InOrder(ready[i], v, table[v], doc[v].version, shown[v])
      /\ \A i, j \in 1..n : i < j => Apart(ready[i], ready[j], v)
  BY <1>0, <1>3 DEF Ordered
<1>5. \A i \in 2..n : i \in 1..n /\ 1 < i
  OBVIOUS
<1>6. CASE v # ready[1].uri
  <2>1. table'[v] = table[v]
    BY <1>2, <1>6 DEF TypeInv
  <2>2. ASSUME Len(ready') = n
        PROVE  ready'[n].uri # v
    BY <1>0, <1>6, <2>2, StartScanEffect
  <2>3. Len(ready') = n =>
            /\ InOrder(ready'[n], v, table[v], doc[v].version, shown[v])
            /\ \A i \in 2..n : Apart(ready[i], ready'[n], v)
    BY <2>2, Foreign
  <2>4. \A i \in 2..n : InOrder(ready[i], v, table[v], doc[v].version, shown[v])
    BY <1>4, <1>5
  <2>5. Ordered(ready', v, table[v], doc[v].version, shown[v])
    <3>1. Follows(ready', ready, n, v, table[v], doc[v].version, shown[v])
      BY <1>0, <1>1, <1>4, <2>3, <2>4 DEF Follows
    <3> QED  BY <1>0, <3>1, MovedUp
  <2> QED  BY <2>1, <2>5
<1>7. CASE v = ready[1].uri
  <2> DEFINE w == ready[1].version
  <2>1. table'[v] = w /\ Begins(ready[1], v)
    BY <1>2, <1>7 DEF TypeInv, Starting, Begins
  <2>2. table[v] < w /\ w <= doc[v].version
    BY <1>1, <1>4, <2>1 DEF InOrder
  <2>3. table[v] \in Nat /\ doc[v].version \in Nat /\ shown[v].version \in Nat /\ w \in Nat
    BY <1>2, OrderTypes
  <2>4. \A i \in 1..n : Begins(ready[i], v) \/ Scans(ready[i], v) =>
                           ready[i].version \in Nat /\ ready[i].at \in Nat
    BY <1>0, OrderTypes
  <2> HIDE DEF w
  <2>5. ASSUME NEW i \in 2..n
        PROVE  InOrder(ready[i], v, w, doc[v].version, shown[v])
    <3>1. /\ InOrder(ready[i], v, table[v], doc[v].version, shown[v])
          /\ Apart(ready[1], ready[i], v) /\ i \in 1..n
      BY <1>1, <1>4, <1>5
    <3>2. Begins(ready[i], v) => w < ready[i].version /\ ready[i].version <= doc[v].version
      BY <2>1, <3>1 DEF InOrder, Apart, w
    <3>3. Scans(ready[i], v) => ready[i].version < w
      BY <2>2, <2>3, <2>4, <3>1 DEF InOrder
    <3> QED  BY <2>3, <2>4, <3>1, <3>2, <3>3 DEF InOrder
  <2>6. ASSUME Len(ready') = n
        PROVE  /\ InOrder(ready'[n], v, w, doc[v].version, shown[v])
               /\ \A i \in 2..n : Apart(ready[i], ready'[n], v)
    <3>1. ready'[n].version = w /\ ready'[n].at = 1 /\ ready'[n].last = ready[1].last
      BY <1>0, <2>6, StartScanEffect DEF w
    <3>2. ready[1].last = -1
      BY <1>0, <1>1, <1>2 DEF AtInv
    <3>3. ~ Begins(ready'[n], v)
      BY <3>1 DEF Begins
    <3>4. shown[v].version < w
      BY <1>4, <2>2, <2>3
    <3>5. InOrder(ready'[n], v, w, doc[v].version, shown[v])
      BY <2>3, <3>1, <3>2, <3>3, <3>4 DEF InOrder
    <3>6. ASSUME NEW i \in 2..n, Scans(ready[i], v)
          PROVE  ready[i].version # w
      <4>1. i \in 1..n /\ InOrder(ready[i], v, table[v], doc[v].version, shown[v])
        BY <1>4, <1>5
      <4> QED  BY <2>2, <2>3, <2>4, <3>6, <4>1 DEF InOrder
    <3> QED  BY <3>1, <3>3, <3>5, <3>6 DEF Apart
  <2>7. shown[v].version <= w
    BY <1>4, <2>2, <2>3
  <2>8. Ordered(ready', v, w, doc[v].version, shown[v])
    <3>1. Follows(ready', ready, n, v, w, doc[v].version, shown[v])
      BY <1>0, <1>1, <1>4, <2>2, <2>5, <2>6, <2>7 DEF Follows
    <3> QED  BY <1>0, <3>1, MovedUp
  <2> QED  BY <2>1, <2>8
<1> QED  BY <1>6, <1>7

LEMMA PublishOrder ==
    ASSUME TypeInv, AtInv, OrderInv, PublishScan, NEW v \in Uri
    PROVE  /\ Ordered(ready', v, table[v], doc[v].version, shown'[v])
           /\ shown'[v] # shown[v] =>
                \/ shown'[v].version > shown[v].version
                \/ /\ shown'[v].version = shown[v].version
                   /\ shown'[v].text = shown[v].text
                   /\ shown'[v].count > shown[v].count
<1>0. PICK n \in Nat \ {0} : n = Len(ready)
  BY PublishEffect
<1>p. PICK count \in Nat :
         /\ ready[1] \in ScanTasks /\ Scanning(1, ready[1].uri)
         /\ table[ready[1].uri] = ready[1].version
         /\ ready[1].last <= count
         /\ shown' = IF count = ready[1].last THEN shown
                     ELSE [shown EXCEPT ![ready[1].uri] =
                             [version |-> ready[1].version, text |-> ready[1].text,
                              count |-> count]]
         /\ Len(ready') \in {n - 1, n}
         /\ \A i \in 1..(n - 1) : ready'[i] = ready[i + 1]
         /\ Len(ready') = n =>
               /\ ready'[n].uri = ready[1].uri
               /\ ready'[n].version = ready[1].version /\ ready'[n].text = ready[1].text
               /\ ready'[n].at = ready[1].at + 1 /\ ready'[n].last = count
  BY <1>0, PublishEffect
<1>1. /\ ready \in Seq(Tasks) /\ ready # <<>> /\ 1 \in 1..n
      /\ Len(ready') \in {n - 1, n}
      /\ \A i \in 1..(n - 1) : ready'[i] = ready[i + 1]
  BY <1>p DEF TypeInv, PublishScan, Running
<1>2. /\ ready[1].uri \in Uri /\ ready[1].version \in Nat
      /\ ready[1].at \in Nat /\ ready[1].last \in Int
  BY <1>p DEF ScanTasks
<1>3. Ordered(ready, v, table[v], doc[v].version, shown[v])
  BY OrderForm
<1>4. /\ table[v] <= doc[v].version /\ shown[v].version <= table[v]
      /\ \A i \in 1..n : InOrder(ready[i], v, table[v], doc[v].version, shown[v])
      /\ \A i, j \in 1..n : i < j => Apart(ready[i], ready[j], v)
  BY <1>0, <1>3 DEF Ordered
<1>5. \A i \in 2..n : i \in 1..n /\ 1 < i
  OBVIOUS
<1>6. CASE v # ready[1].uri
  <2>1. shown'[v] = shown[v]
    BY <1>p, <1>6 DEF TypeInv, Publications
  <2>2. Len(ready') = n =>
            /\ InOrder(ready'[n], v, table[v], doc[v].version, shown[v])
            /\ \A i \in 2..n : Apart(ready[i], ready'[n], v)
    BY <1>p, <1>6, Foreign
  <2>3. \A i \in 2..n : InOrder(ready[i], v, table[v], doc[v].version, shown[v])
    BY <1>4, <1>5
  <2>4. Ordered(ready', v, table[v], doc[v].version, shown[v])
    <3>1. Follows(ready', ready, n, v, table[v], doc[v].version, shown[v])
      BY <1>0, <1>1, <1>4, <2>2, <2>3 DEF Follows
    <3> QED  BY <1>0, <3>1, MovedUp
  <2> QED  BY <2>1, <2>4
<1>7. CASE v = ready[1].uri
  <2>1. /\ Scans(ready[1], v) /\ ready[1].version = table[v]
        /\ InOrder(ready[1], v, table[v], doc[v].version, shown[v])
    BY <1>p, <1>1, <1>4, <1>7 DEF Scanning, Scans
  <2>2. IF ready[1].last = -1 THEN shown[v].version < table[v]
        ELSE shown[v] = [version |-> table[v], text |-> ready[1].text, count |-> ready[1].last]
    BY <2>1 DEF InOrder
  <2>3. table[v] \in Nat /\ shown[v].version \in Nat
    BY OrderTypes
  <2>4. shown'[v] = [version |-> table[v], text |-> ready[1].text, count |-> count]
    <3>1. CASE count = ready[1].last
      BY <1>p, <2>2, <3>1
    <3>2. CASE count # ready[1].last
      BY <1>p, <1>7, <2>1, <3>2 DEF TypeInv, Publications
    <3> QED  BY <3>1, <3>2
  <2>5. ASSUME shown'[v] # shown[v]
        PROVE  \/ shown'[v].version > shown[v].version
               \/ /\ shown'[v].version = shown[v].version
                  /\ shown'[v].text = shown[v].text
                  /\ shown'[v].count > shown[v].count
    <3>1. CASE ready[1].last = -1
      BY <2>2, <2>3, <2>4, <3>1
    <3>2. CASE ready[1].last # -1
      <4>1. count # ready[1].last
        BY <1>p, <2>5
      <4> QED  BY <1>p, <1>2, <2>2, <2>4, <3>2, <4>1
    <3> QED  BY <3>1, <3>2
  <2>6. ASSUME NEW i \in 2..n
        PROVE  InOrder(ready[i], v, table[v], doc[v].version, shown'[v])
    <3>1. /\ InOrder(ready[i], v, table[v], doc[v].version, shown[v])
          /\ Apart(ready[1], ready[i], v)
      BY <1>1, <1>4, <1>5
    <3>2. ~ (Scans(ready[i], v) /\ ready[i].version = table[v])
      BY <2>1, <3>1 DEF Apart
    <3> QED  BY <3>1, <3>2 DEF InOrder
  <2>7. ASSUME Len(ready') = n
        PROVE  /\ InOrder(ready'[n], v, table[v], doc[v].version, shown'[v])
               /\ \A i \in 2..n : Apart(ready[i], ready'[n], v)
    <3>1. /\ ready'[n].version = table[v] /\ ready'[n].text = ready[1].text
          /\ ready'[n].at > 0 /\ ready'[n].at # 0 /\ ready'[n].last = count
      BY <1>p, <1>2, <2>1, <2>7
    <3>2. ~ Begins(ready'[n], v)
      BY <3>1 DEF Begins
    <3>3. InOrder(ready'[n], v, table[v], doc[v].version, shown'[v])
      BY <2>3, <2>4, <3>1, <3>2 DEF InOrder
    <3>4. \A i \in 2..n : Scans(ready[i], v) => ready[i].version # table[v]
      BY <1>1, <1>4, <1>5, <2>1 DEF Apart
    <3> QED  BY <3>1, <3>2, <3>3, <3>4 DEF Apart
  <2>8. shown'[v].version <= table[v]
    BY <2>3, <2>4
  <2>9. Ordered(ready', v, table[v], doc[v].version, shown'[v])
    <3>1. Follows(ready', ready, n, v, table[v], doc[v].version, shown'[v])
      BY <1>0, <1>1, <1>4, <2>6, <2>7, <2>8 DEF Follows
    <3> QED  BY <1>0, <3>1, MovedUp
  <2> QED  BY <2>5, <2>9
<1> QED  BY <1>6, <1>7

LEMMA OrderStep ==
    ASSUME TypeInv, DocInv, AtInv, OrderInv, [Next]_vars, ~ VersionsRestart
    PROVE  OrderInv'
<1> SUFFICES ASSUME NEW v \in Uri
             PROVE  Ordered(ready', v, table'[v], doc'[v].version, shown'[v])
  BY DEF OrderInv, Ordered, InOrder, Apart, Begins, Scans, Starting, Scanning
<1>0. /\ Len(ready) \in Nat /\ ready \in Seq(Tasks)
      /\ Ordered(ready, v, table[v], doc[v].version, shown[v])
  BY OrderForm DEF TypeInv
<1>t. /\ table[v] \in Nat /\ doc[v].version \in Nat
      /\ \A i \in 1..Len(ready) : Begins(ready[i], v) => ready[i].version \in Nat
  BY OrderTypes
<1>1. CASE StartScan
  BY <1>1, StartOrder, StartScanEffect, RunTaskFrame DEF RunTask
<1>2. CASE PublishScan
  BY <1>2, PublishOrder, PublishEffect, RunTaskFrame DEF RunTask
<1>3. CASE CancelScan \/ Initialize \/ LoadApt \/ CancelLoading
  <2>0. PICK n \in Nat \ {0} : n = Len(ready)
    BY <1>3, OtherEffect
  <2>1. /\ ready # <<>> /\ table' = table /\ shown' = shown /\ doc' = doc
        /\ Len(ready') \in {n - 1, n}
        /\ \A i \in 1..(n - 1) : ready'[i] = ready[i + 1]
        /\ Len(ready') = n => ready'[n].kind = "apt"
    BY <1>3, <2>0, OtherEffect, RunTaskFrame
    DEF RunTask, CancelScan, Initialize, LoadApt, CancelLoading, Running
  <2>2. Len(ready') = n =>
            /\ InOrder(ready'[n], v, table[v], doc[v].version, shown[v])
            /\ \A i \in 2..n : Apart(ready[i], ready'[n], v)
    BY <2>1, Foreign
  <2>3. \A i \in 2..n : i \in 1..n
    OBVIOUS
  <2>4. /\ table[v] <= doc[v].version /\ shown[v].version <= table[v]
        /\ \A i \in 1..n : InOrder(ready[i], v, table[v], doc[v].version, shown[v])
        /\ \A i, j \in 1..n : i < j => Apart(ready[i], ready[j], v)
    BY <1>0, <2>0 DEF Ordered
  <2>5. \A i \in 2..n : InOrder(ready[i], v, table[v], doc[v].version, shown[v])
    BY <2>3, <2>4
  <2>6. Ordered(ready', v, table[v], doc[v].version, shown[v])
    <3>1. Follows(ready', ready, n, v, table[v], doc[v].version, shown[v])
      BY <2>0, <2>1, <2>2, <2>4, <2>5 DEF Follows
    <3> QED  BY <2>0, <3>1, MovedUp
  <2> QED  BY <2>1, <2>6
<1>4. CASE Shutdown
  <2>1. /\ table' = table /\ shown' = shown /\ doc' = doc /\ Len(ready') = Len(ready)
        /\ \A i \in 1..Len(ready) :
              \/ ready'[i] = ready[i]
              \/ ready'[i].kind # "diagnose"
    BY <1>4, ShutdownEffect DEF Shutdown, workspace
  <2> QED  BY <1>0, <2>1, Foreign DEF Ordered
<1>5. ASSUME NEW u \in Uri, DidClose(u)
      PROVE  Ordered(ready', v, table'[v], doc'[v].version, shown'[v])
  BY <1>0, <1>5, DidCloseEffect
<1>6. ASSUME NEW u \in Uri, NEW text \in Text, DidOpen(u, text) \/ DidChange(u, text)
      PROVE  Ordered(ready', v, table'[v], doc'[v].version, shown'[v])
  <2>0. PICK m : m = Len(ready) + 1
    OBVIOUS
  <2>1. PICK version \in 1..MaxMessages :
            Received(u, version, text) /\ version = doc[u].version + 1
    BY <1>6, MessageForm
  <2>2. /\ Len(ready') = m
        /\ \A i \in 1..Len(ready) : ready'[i] = ready[i]
        /\ ready'[m] = [kind |-> "diagnose", uri |-> u, version |-> version,
                        text |-> NoText, at |-> 0, last |-> -1]
        /\ \A w \in Uri \ {u} : doc'[w] = doc[w]
        /\ doc'[u].version = version
    BY <2>0, <2>1, ReceivedEffect
  <2>3. table' = table /\ shown' = shown
    BY <1>6, MessageForm, MessageLeaves
  <2>4. doc[v].version <= doc'[v].version
    <3>1. CASE v = u
      BY <1>t, <2>1, <2>2, <3>1
    <3>2. CASE v # u
      BY <1>t, <2>2, <3>2
    <3> QED  BY <3>1, <3>2
  <2>5. doc'[v].version \in Nat
    <3>1. CASE v = u
      BY <1>t, <2>1, <2>2, <3>1
    <3>2. CASE v # u
      BY <1>t, <2>2, <3>2
    <3> QED  BY <3>1, <3>2
  <2>6. ASSUME NEW i \in 1..Len(ready)
        PROVE  InOrder(ready[i], v, table[v], doc'[v].version, shown[v])
    <3>1. InOrder(ready[i], v, table[v], doc[v].version, shown[v])
      BY <1>0 DEF Ordered
    <3>2. Begins(ready[i], v) => ready[i].version <= doc'[v].version
      BY <1>t, <2>4, <2>5, <3>1 DEF InOrder
    <3> QED  BY <3>1, <3>2 DEF InOrder
  <2>7. /\ InOrder(ready'[m], v, table[v], doc'[v].version, shown[v])
        /\ \A i \in 1..Len(ready) : Apart(ready[i], ready'[m], v)
    <3>1. CASE v = u
      <4>1. /\ Begins(ready'[m], v) /\ ~ Scans(ready'[m], v) /\ ready'[m].version = version
            /\ doc'[v].version = version
        BY <2>2, <3>1 DEF Begins, Scans
      <4>2. table[v] < version
        BY <1>0, <1>t, <2>1, <3>1 DEF Ordered
      <4>3. ASSUME NEW i \in 1..Len(ready), Begins(ready[i], v)
            PROVE  ready[i].version < version
        <5>1. ready[i].version <= doc[v].version
          BY <1>0, <4>3 DEF Ordered, InOrder
        <5>2. ready[i].version \in Nat /\ version = doc[v].version + 1
          BY <1>t, <2>1, <3>1, <4>3
        <5>3. doc[v].version \in Nat
          BY <1>t
        <5> QED  BY <5>1, <5>2, <5>3
      <4> QED  BY <4>1, <4>2, <4>3 DEF InOrder, Apart
    <3>2. CASE v # u
      <4>1. ready'[m].uri # v
        BY <2>2, <3>2
      <4> QED  BY <4>1, Foreign
    <3> QED  BY <3>1, <3>2
  <2>8. \A i \in 1..m : \/ i \in 1..Len(ready) /\ i < m
                        \/ i = m
    BY <1>0, <2>0
  <2>9. table[v] <= doc'[v].version /\ shown[v].version <= table[v]
    BY <1>0, <1>t, <2>4, <2>5 DEF Ordered
  <2>10. ASSUME NEW i \in 1..m  PROVE InOrder(ready'[i], v, table[v], doc'[v].version, shown[v])
    BY <2>2, <2>6, <2>7, <2>8
  <2>11. ASSUME NEW i \in 1..m, NEW j \in 1..m, i < j  PROVE Apart(ready'[i], ready'[j], v)
    <3>1. i \in 1..Len(ready) /\ ready'[i] = ready[i]
      BY <1>0, <2>0, <2>2, <2>11
    <3>2. CASE j = m
      BY <2>7, <3>1, <3>2
    <3>3. CASE j \in 1..Len(ready)
      BY <1>0, <2>2, <2>11, <3>1, <3>3 DEF Ordered
    <3> QED  BY <2>8, <3>2, <3>3
  <2> QED  BY <2>2, <2>3, <2>9, <2>10, <2>11 DEF Ordered
<1>7. CASE UNCHANGED vars
  BY <1>0, <1>7 DEF vars, workspace
<1> QED  BY <1>1, <1>2, <1>3, <1>4, <1>5, <1>6, <1>7 DEF Next, RunTask

-----------------------------------------------------------------------------
(* The theorems.                                                            *)

LEMMA InitInv == Init => ServerInv /\ IndexInv /\ OrderInv
<1> SUFFICES ASSUME Init PROVE ServerInv /\ IndexInv /\ OrderInv
  OBVIOUS
<1>0. /\ ready = <<[kind |-> "initialize"]>> /\ packages = {} /\ aptState = "not-loaded"
      /\ doc = [u \in Uri |-> [open |-> FALSE, version |-> 0, text |-> DiskText[u]]]
      /\ table = [u \in Uri |-> 0] /\ shown = [u \in Uri |-> Nothing] /\ messages = 0
  BY DEF Init
<1>1. Len(ready) = 1 /\ ready[1].kind = "initialize"
  BY <1>0
<1>2. \A i \in 1..Len(ready) : i = 1
  BY <1>1
<1>3. TypeInv
  BY InitTypes
<1>4. LatestInv /\ AtInv /\ TextInv
  BY <1>1, <1>2 DEF LatestInv, AtInv, TextInv, Starting, Scanning
<1>5. DocInv /\ ShownInv /\ PublishedMatchesVersion
  BY <1>0 DEF DocInv, ShownInv, PublishedMatchesVersion
<1>6. IndexInv
  BY <1>0, <1>1, <1>2 DEF IndexInv
<1>7. OrderInv
  BY <1>0, <1>1, <1>2 DEF OrderInv, Starting, Scanning, Nothing
<1> QED  BY <1>3, <1>4, <1>5, <1>6, <1>7 DEF ServerInv

LEMMA ServerStep ==
    ServerInv /\ IndexInv /\ [Next]_vars => ServerInv' /\ IndexInv'
<1> SUFFICES ASSUME ServerInv, IndexInv, [Next]_vars PROVE ServerInv' /\ IndexInv'
  OBVIOUS
<1>1. TypeInv' /\ DocInv' /\ LatestInv' /\ AtInv' /\ TextInv'
  BY NextTypes, DocStep, LatestStep, AtStep, TextStep DEF ServerInv
<1>2. ShownInv' /\ PublishedMatchesVersion'
  BY PublishedStep DEF ServerInv
<1>3. IndexInv'
  BY IndexStep DEF ServerInv
<1> QED  BY <1>1, <1>2, <1>3 DEF ServerInv

\* The inductive invariant of the server holds in every state.
THEOREM ServerIsInvariant == Spec => [](ServerInv /\ IndexInv)
<1>1. Init => ServerInv /\ IndexInv
  BY InitInv
<1>2. ServerInv /\ IndexInv /\ [Next]_vars => (ServerInv /\ IndexInv)'
  BY ServerStep
<1> QED  BY <1>1, <1>2, PTL DEF Spec

\* Every variable of the language server has its type.
THEOREM ServerTypes == Spec => []TypeOK
<1>1. TypeInv => TypeOK
  <2> SUFFICES ASSUME TypeInv PROVE TypeOK
    OBVIOUS
  <2>1. \A i \in 1..Len(ready) : ready[i].kind \in {"initialize", "apt", "diagnose"}
    <3>1. \A i \in 1..Len(ready) : ready[i] \in Tasks
      BY ElementOfSeq DEF TypeInv
    <3> QED  BY <3>1, TasksByKind
  <2>2. \A u \in Uri : shown[u].text \in Text \cup {NoText}
    BY DEF TypeInv, Publications
  <2> QED  BY <2>1, <2>2 DEF TypeOK, TypeInv, Docs
<1>2. ServerInv /\ IndexInv => TypeOK
  BY <1>1 DEF ServerInv
<1> QED  BY <1>2, ServerIsInvariant, PTL

\* Whatever is published for a version of a document was worked out from a text
\* of that version, although the handler of the message reads the workspace only
\* when its task begins (_diagnostics_for): also if the client closes documents,
\* opens them again, and counts their versions from 1.
THEOREM PublishedIsOfItsVersion == Spec => []PublishedMatchesVersion
<1>1. ServerInv /\ IndexInv => PublishedMatchesVersion
  BY DEF ServerInv
<1> QED  BY <1>1, ServerIsInvariant, PTL

\* What a hover tells of a package is the newest version in the index and those
\* who provide it, at any moment and for any index, whatever the order of the
\* packages in it (AptCache).
THEOREM HoverTellsTheNewest == Spec => []HoverIsRight
<1>1. ServerInv /\ IndexInv => HoverIsRight
  BY HoverFromIndex
<1> QED  BY <1>1, ServerIsInvariant, PTL

\* As long as the versions of a document only grow, nothing that is published
\* takes the client back to an earlier version or to fewer diagnostics of the
\* same one, in whatever order the tasks of the versions take their turns.
THEOREM PublishingAdvances == ~ VersionsRestart => (Spec => PublicationsAdvance)
<1> SUFFICES ASSUME ~ VersionsRestart PROVE Spec => PublicationsAdvance
  OBVIOUS
<1> DEFINE All == ServerInv /\ IndexInv /\ OrderInv
           Advance == \A u \in Uri : shown'[u] # shown[u] =>
                        \/ shown'[u].version > shown[u].version
                        \/ /\ shown'[u].version = shown[u].version
                           /\ shown'[u].text = shown[u].text
                           /\ shown'[u].count > shown[u].count
<1>1. Init => All
  BY InitInv
<1>2. All /\ [Next]_vars => All'
  BY ServerStep, OrderStep DEF ServerInv
<1>3. All /\ [Next]_vars => [Advance]_vars
  <2> SUFFICES ASSUME All, [Next]_vars PROVE Advance
    OBVIOUS
  <2>1. CASE shown' = shown
    BY <2>1
  <2>2. CASE PublishScan
    BY <2>2, PublishOrder DEF ServerInv
  <2> QED  BY <2>1, <2>2, OnlyPublishes DEF ServerInv
<1>4. Spec => [][Advance]_vars
  BY <1>1, <1>2, <1>3, PTL DEF Spec
<1> QED  BY <1>4 DEF PublicationsAdvance
=============================================================================
