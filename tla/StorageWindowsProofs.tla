------------------------ MODULE StorageWindowsProofs ------------------------
(***************************************************************************)
(* Two processes of the shared storage never differ for good, for any      *)
(* windows, keys and values.  The invariant says which message is the last *)
(* word on a key: the last one to a window carries the value of the main   *)
(* process, unless a change event is due, and where no message is under    *)
(* way to the window, its own last change is its value.                    *)
(***************************************************************************)
EXTENDS StorageWindows, TLAPS

Updates == UNION {[S -> Contents] : S \in SUBSET Keys}

Messages ==
    {m \in [type : {"listen", "getItems", "updateItems", "items", "change", "updated"},
            items : Updates] :
        /\ m.type = "items" => DOMAIN m.items = Keys
        /\ m.type \in {"listen", "getItems"} => DOMAIN m.items = {}}

TypeOK ==
    /\ state \in [Windows -> {"None", "Loading", "Initialized", "Closed"}]
    /\ cache \in [Windows -> Maps]
    /\ pending \in [Windows -> Updates]
    /\ active \in [Windows -> BOOLEAN]
    /\ main \in Maps
    /\ changed \in SUBSET Keys
    /\ listeners \in SUBSET Windows
    /\ toMain \in [Windows -> Seq(Messages)]
    /\ toWindow \in [Windows -> Seq(Messages)]

\* A window that main has no listener of has been told nothing, or no event
\* is sent until main has one.
Hears(w) ==
    /\ state[w] = "None" => w \notin listeners
    /\ state[w] # "None" /\ w \notin listeners /\ ~Gap(w) =>
         state[w] = "Loading" /\ toMain[w] \in {ListenFirst, GetItemsFirst}
    /\ w \notin listeners /\ ~Gap(w) => toWindow[w] = <<>> /\ pending[w] = NoItems

\* Message i is the last one of s about key k.
LastAbout(s, i, k) ==
    /\ i \in 1..Len(s)
    /\ k \in DOMAIN s[i].items
    /\ \A j \in 1..Len(s) : j > i => k \notin DOMAIN s[j].items

\* What a window is told last is true, or will be followed by an event.
ToldTruth(w, k) ==
    \A i \in 1..Len(toWindow[w]) :
        LastAbout(toWindow[w], i, k) =>
            k \in changed \/ toWindow[w][i].items[k] = main[k]

\* The last change of k that main does not know of yet is the value in the
\* window.
LastUnsent(w, k) ==
    \/ k \in DOMAIN pending[w] /\ pending[w][k] = cache[w][k]
    \/ /\ k \notin DOMAIN pending[w]
       /\ \E i \in 1..Len(toMain[w]) : LastAbout(toMain[w], i, k)
                                       /\ toMain[w][i].items[k] = cache[w][k]

Silent(w, k) == \A i \in 1..Len(toWindow[w]) : k \notin DOMAIN toWindow[w][i].items

SilenceIsAgreement(w, k) ==
    state[w] = "Initialized" /\ Silent(w, k) =>
        k \in changed \/ cache[w][k] = main[k] \/ LastUnsent(w, k)

IInv ==
    /\ TypeOK
    /\ \A w \in Windows : Hears(w)
    /\ \A w \in Windows, k \in Keys : ToldTruth(w, k) /\ SilenceIsAgreement(w, k)

-----------------------------------------------------------------------------
(* Partial maps and sequences of messages.                                 *)

\* An update is a function from some of the keys to contents.
LEMMA UpdateIsFunction ==
    ASSUME NEW m
    PROVE  m \in Updates <=> /\ DOMAIN m \subseteq Keys
                            /\ m \in [DOMAIN m -> Contents]
BY DEF Updates

\* The items that every window starts with are no items.
LEMMA NoItemsIsUpdate == NoItems \in Updates /\ DOMAIN NoItems = {}
BY DEF NoItems, Updates

\* Applying an update to a map gives a map, with the values of the update.
LEMMA OverMap ==
    ASSUME NEW c \in Maps, NEW m \in Updates
    PROVE  /\ Over(c, m) \in Maps
           /\ \A k \in Keys : Over(c, m)[k] = IF k \in DOMAIN m THEN m[k] ELSE c[k]
<1>1. DOMAIN m \subseteq Keys /\ \A k \in DOMAIN m : m[k] \in Contents
  BY UpdateIsFunction
<1>2. DOMAIN c = Keys /\ \A k \in Keys : c[k] \in Contents
  BY DEF Maps
<1>3. DOMAIN c \cup DOMAIN m = Keys
  BY <1>1, <1>2
<1> QED
  BY <1>1, <1>2, <1>3 DEF Over, Maps

\* A change of one key is added to the pending items.
LEMMA OverOne ==
    ASSUME NEW p \in Updates, NEW k \in Keys, NEW v \in Contents,
           NEW u, u = [x \in {k} |-> v], NEW q, q = Over(p, u)
    PROVE  /\ q \in Updates
           /\ DOMAIN q = DOMAIN p \cup {k}
           /\ q[k] = v
           /\ \A l \in DOMAIN p : l # k => q[l] = p[l]
<1>1. DOMAIN p \subseteq Keys /\ \A l \in DOMAIN p : p[l] \in Contents
  BY UpdateIsFunction
<1>2. q = [l \in DOMAIN p \cup {k} |-> IF l \in {k} THEN v ELSE p[l]]
  BY DEF Over
<1>3. DOMAIN q = DOMAIN p \cup {k} /\ q \in [DOMAIN q -> Contents]
  BY <1>1, <1>2
<1>4. q \in Updates
  BY <1>1, <1>3, UpdateIsFunction
<1> QED
  BY <1>2, <1>3, <1>4

\* What becomes of the last message about a key when one is sent.
LEMMA LastOfAppend ==
    ASSUME NEW s \in Seq(Messages), NEW m \in Messages, NEW k \in Keys
    PROVE  /\ Len(Append(s, m)) = Len(s) + 1
           /\ Append(s, m)[Len(s) + 1] = m
           /\ \A i \in 1..Len(s) : Append(s, m)[i] = s[i]
           /\ LastAbout(Append(s, m), Len(s) + 1, k) <=> k \in DOMAIN m.items
           /\ \A i \in 1..Len(s) : LastAbout(Append(s, m), i, k) <=>
                                    LastAbout(s, i, k) /\ k \notin DOMAIN m.items
<1> DEFINE t == Append(s, m)
<1>1. Len(s) \in Nat /\ Len(t) = Len(s) + 1 /\ t[Len(s) + 1] = m
  OBVIOUS
<1>2. \A i \in 1..Len(s) : t[i] = s[i]
  OBVIOUS
<1> HIDE DEF t
<1>3. LastAbout(t, Len(s) + 1, k) <=> k \in DOMAIN m.items
  BY <1>1 DEF LastAbout
<1>4. ASSUME NEW i \in 1..Len(s)
      PROVE  LastAbout(t, i, k) <=> LastAbout(s, i, k) /\ k \notin DOMAIN m.items
  <2>1. \A j \in 1..Len(t) : j \in 1..Len(s) \/ j = Len(s) + 1
    BY <1>1
  <2>2. i \in 1..Len(t) /\ Len(s) + 1 \in 1..Len(t) /\ Len(s) + 1 > i
    BY <1>1
  <2>3. LastAbout(t, i, k) => LastAbout(s, i, k) /\ k \notin DOMAIN m.items
    BY <1>1, <1>2, <2>2 DEF LastAbout
  <2>4. LastAbout(s, i, k) /\ k \notin DOMAIN m.items => LastAbout(t, i, k)
    BY <1>1, <1>2, <2>1, <2>2 DEF LastAbout
  <2> QED
    BY <2>3, <2>4
<1> QED
  BY <1>1, <1>2, <1>3, <1>4 DEF t

\* What becomes of the last message about a key when one is received.
LEMMA LastOfTail ==
    ASSUME NEW s \in Seq(Messages), s # <<>>, NEW k \in Keys
    PROVE  /\ Len(Tail(s)) = Len(s) - 1
           /\ Len(s) \in Nat \ {0}
           /\ Head(s) = s[1] /\ Head(s) \in Messages
           /\ \A i \in 1..(Len(s) - 1) : /\ Tail(s)[i] = s[i + 1]
                                        /\ LastAbout(Tail(s), i, k) <=> LastAbout(s, i + 1, k)
<1> DEFINE t == Tail(s)
<1>1. Len(s) \in Nat \ {0} /\ Len(t) = Len(s) - 1 /\ Head(s) = s[1] /\ Head(s) \in Messages
  OBVIOUS
<1>2. \A i \in 1..(Len(s) - 1) : t[i] = s[i + 1]
  OBVIOUS
<1> HIDE DEF t
<1>3. ASSUME NEW i \in 1..(Len(s) - 1)
      PROVE  LastAbout(t, i, k) <=> LastAbout(s, i + 1, k)
  <2>1. ASSUME LastAbout(t, i, k)
        PROVE  LastAbout(s, i + 1, k)
    <3>1. ASSUME NEW j \in 1..Len(s), j > i + 1
          PROVE  k \notin DOMAIN s[j].items
      <4>1. j - 1 \in 1..Len(t) /\ j - 1 > i /\ t[j - 1] = s[j]
        BY <1>1, <1>2, <3>1
      <4> QED
        BY <4>1, <2>1 DEF LastAbout
    <3> QED
      BY <1>1, <1>2, <2>1, <3>1 DEF LastAbout
  <2>2. ASSUME LastAbout(s, i + 1, k)
        PROVE  LastAbout(t, i, k)
    <3>1. ASSUME NEW j \in 1..Len(t), j > i
          PROVE  k \notin DOMAIN t[j].items
      <4>1. j + 1 \in 1..Len(s) /\ j + 1 > i + 1 /\ t[j] = s[j + 1]
        BY <1>1, <1>2, <3>1
      <4> QED
        BY <4>1, <2>2 DEF LastAbout
    <3> QED
      BY <1>1, <1>2, <2>2, <3>1 DEF LastAbout
  <2> QED
    BY <2>1, <2>2
<1> QED
  BY <1>1, <1>2, <1>3 DEF t

-----------------------------------------------------------------------------
(* The steps of a window.                                                  *)

\* The messages that the model builds are messages.
LEMMA MessageType ==
    /\ \A u \in Updates, c \in {"updateItems", "change", "updated"} :
         Message(c, u) \in Messages /\ Message(c, u).items = u /\ Message(c, u).type = c
    /\ \A c \in {"listen", "getItems"} : Message(c, NoItems) \in Messages
                                       /\ Message(c, NoItems).type = c
    /\ \A m \in Maps : Message("items", m) \in Messages /\ Message("items", m).items = m
                      /\ Message("items", m).type = "items" /\ DOMAIN m = Keys
<1>1. ASSUME NEW m \in Maps
      PROVE  m \in Updates /\ DOMAIN m = Keys
  BY <1>1, UpdateIsFunction DEF Maps
<1> QED
  BY <1>1, NoItemsIsUpdate DEF Message, Messages

\* A step that leaves the messages to a window alone, and records the change
\* of a key, leaves what the window is told true.
LEMMA ToldTruthKept ==
    ASSUME NEW x \in Windows, NEW k \in Keys, ToldTruth(x, k),
           toWindow'[x] = toWindow[x],
           k \in changed => k \in changed',
           k \in changed' \/ main'[k] = main[k]
    PROVE  ToldTruth(x, k)'
BY DEF ToldTruth, LastAbout

\* The same for a step that leaves the window alone, too.
LEMMA SilenceKept ==
    ASSUME NEW x \in Windows, NEW k \in Keys, SilenceIsAgreement(x, k),
           state'[x] = "Initialized" => state[x] = "Initialized",
           cache'[x][k] = cache[x][k],
           k \in DOMAIN pending'[x] <=> k \in DOMAIN pending[x],
           k \in DOMAIN pending[x] => pending'[x][k] = pending[x][k],
           toMain'[x] = toMain[x],
           toWindow'[x] = toWindow[x],
           k \in changed => k \in changed',
           k \in changed' \/ main'[k] = main[k]
    PROVE  SilenceIsAgreement(x, k)'
<1>1. Silent(x, k)' => Silent(x, k)
  BY DEF Silent
<1>2. LastUnsent(x, k) => LastUnsent(x, k)'
  BY DEF LastUnsent, LastAbout
<1> QED
  BY <1>1, <1>2 DEF SilenceIsAgreement

\* These are the same in every state.
LEMMA Constants ==
    ListenFirst' = ListenFirst /\ GetItemsFirst' = GetItemsFirst /\ NoItems' = NoItems
BY DEF ListenFirst, GetItemsFirst, NoItems, Message

\* Initially no window is open.
LEMMA InitIInv == Init => IInv
<1> SUFFICES ASSUME Init PROVE IInv
  OBVIOUS
<1>1. TypeOK
  BY NoItemsIsUpdate DEF Init, TypeOK, Maps, Empty, Contents
<1> QED
  BY <1>1 DEF Init, IInv, Hears, ToldTruth, SilenceIsAgreement

\* A window that opens has been told nothing.
LEMMA OpenIInv == ASSUME IInv, NEW w \in Windows, Open(w) PROVE IInv'
<1>1. ListenFirst \in Seq(Messages) /\ GetItemsFirst \in Seq(Messages)
  BY MessageType, NoItemsIsUpdate DEF ListenFirst, GetItemsFirst
<1>2. TypeOK'
  BY <1>1 DEF Open, IInv, TypeOK
<1>3. ASSUME NEW x \in Windows PROVE Hears(x)'
  BY Constants DEF Open, IInv, TypeOK, Hears, Gap
<1>4. ASSUME NEW x \in Windows, NEW k \in Keys
      PROVE  (ToldTruth(x, k) /\ SilenceIsAgreement(x, k))'
  <2>1. ToldTruth(x, k)'
    BY ToldTruthKept DEF Open, IInv
  <2>2. CASE x = w
    BY <2>1, <2>2 DEF Open, IInv, TypeOK, SilenceIsAgreement
  <2>3. CASE x # w
    <3>1. state'[x] = state[x] /\ toMain'[x] = toMain[x]
      BY <2>3 DEF Open, IInv, TypeOK
    <3> QED
      BY <2>1, <3>1, SilenceKept DEF Open, IInv
  <2> QED
    BY <2>2, <2>3
<1> QED
  BY <1>2, <1>3, <1>4 DEF IInv

\* set() and delete() make the pending value of the key that of the cache.
LEMMA SetIInv ==
    ASSUME IInv, NEW w \in Windows, NEW l \in Keys, NEW v \in Contents, Set(w, l, v)
    PROVE  IInv'
<1> DEFINE p == pending[w]
           u == [x \in {l} |-> v]
           q == Over(p, u)
<1>1. p \in Updates /\ u = [x \in {l} |-> v] /\ q = Over(p, u)
  BY DEF IInv, TypeOK
<1> HIDE DEF p, q, u
<1>2. /\ q \in Updates
      /\ DOMAIN q = DOMAIN p \cup {l}
      /\ q[l] = v
      /\ \A k \in DOMAIN p : k # l => q[k] = p[k]
  BY <1>1, OverOne
<1> USE DEF p
<1>3. pending' = [pending EXCEPT ![w] = q] /\ cache' = [cache EXCEPT ![w][l] = v]
  BY DEF Set, q, u, p
<1>4. TypeOK'
  BY <1>2, <1>3 DEF Set, IInv, TypeOK, Maps
<1>5. ASSUME NEW x \in Windows PROVE Hears(x)'
  BY Constants DEF Set, IInv, Hears, Gap
<1>6. ASSUME NEW x \in Windows, NEW k \in Keys
      PROVE  (ToldTruth(x, k) /\ SilenceIsAgreement(x, k))'
  <2>1. ToldTruth(x, k)'
    BY ToldTruthKept DEF Set, IInv
  <2>2. SilenceIsAgreement(x, k)
    BY DEF IInv
  <2>3. CASE x = w /\ k = l
    <3>1. l \in DOMAIN pending'[w] /\ pending'[w][l] = v /\ cache'[w][l] = v
      BY <1>2, <1>3 DEF IInv, TypeOK, Maps
    <3>2. LastUnsent(x, k)'
      BY <2>3, <3>1 DEF LastUnsent
    <3> QED
      BY <2>1, <3>2 DEF SilenceIsAgreement
  <2>4. CASE ~(x = w /\ k = l)
    <3>1. cache'[x][k] = cache[x][k]
      BY <1>3, <2>4 DEF IInv, TypeOK, Maps
    <3>2. /\ k \in DOMAIN pending'[x] <=> k \in DOMAIN pending[x]
          /\ k \in DOMAIN pending[x] => pending'[x][k] = pending[x][k]
      BY <1>2, <1>3, <2>4 DEF IInv, TypeOK
    <3> QED
      BY <2>1, <2>2, <3>1, <3>2, SilenceKept DEF Set
  <2> QED
    BY <2>3, <2>4
<1> QED
  BY <1>4, <1>5, <1>6 DEF IInv

\* flushPending() makes the pending change the last one on its way to main.
LEMMA FlushIInv == ASSUME IInv, NEW w \in Windows, Flush(w) PROVE IInv'
<1> DEFINE m == Message("updateItems", pending[w])
<1>1. m \in Messages /\ m.items = pending[w]
  BY MessageType DEF IInv, TypeOK
<1> HIDE DEF m
<1>2. toMain' = [toMain EXCEPT ![w] = Append(@, m)] /\ pending' = [pending EXCEPT ![w] = NoItems]
  BY DEF Flush, m
<1>3. toMain[w] \in Seq(Messages)
  BY DEF IInv, TypeOK
<1>4. TypeOK'
  BY <1>1, <1>2, <1>3, NoItemsIsUpdate DEF Flush, IInv, TypeOK
<1>5. ASSUME NEW x \in Windows PROVE Hears(x)'
  <2>1. CASE x # w
    BY <1>2, <2>1, Constants DEF Flush, IInv, TypeOK, Hears, Gap
  <2>2. CASE x = w
    <3>1. pending[w] # NoItems
      BY DEF Flush
    <3>2. w \in listeners \/ Gap(w)
      BY <3>1 DEF IInv, Hears
    <3>3. Gap(w) => Gap(w)'
      <4>1. toMain'[w] = Append(toMain[w], m) /\ state' = state
        BY <1>2 DEF Flush, IInv, TypeOK
      <4>2. m.type = "updateItems" /\ \A s \in Seq(Messages) : Append(s, m) # ListenFirst
        <5>1. m.type = "updateItems" /\ Message("getItems", NoItems).type = "getItems"
          BY MessageType DEF IInv, TypeOK, m
        <5>2. Len(ListenFirst) = 2 /\ ListenFirst[2] = Message("getItems", NoItems)
          BY DEF ListenFirst
        <5>3. ASSUME NEW s \in Seq(Messages), Append(s, m) = ListenFirst
              PROVE  FALSE
          <6>1. Len(s) \in Nat /\ Len(s) + 1 = 2 /\ Append(s, m)[Len(s) + 1] = m
            BY <5>2, <5>3
          <6> QED
            BY <5>1, <5>2, <5>3, <6>1
        <5> QED
          BY <5>1, <5>3
      <4>3. Gap(w) => Head(Append(toMain[w], m)) = Head(toMain[w])
                      /\ Append(toMain[w], m) # <<>>
        BY <1>1, <1>3 DEF Gap
      <4> QED
        BY <1>3, <4>1, <4>2, <4>3, Constants DEF Gap
    <3> QED
      BY <2>2, <3>2, <3>3 DEF Flush, IInv, Hears, Gap
  <2> QED
    BY <2>1, <2>2
<1>6. ASSUME NEW x \in Windows, NEW k \in Keys
      PROVE  (ToldTruth(x, k) /\ SilenceIsAgreement(x, k))'
  <2>1. ToldTruth(x, k)'
    BY ToldTruthKept DEF Flush, IInv
  <2>2. SilenceIsAgreement(x, k)
    BY DEF IInv
  <2>3. CASE x # w
    <3>1. toMain'[x] = toMain[x] /\ pending'[x] = pending[x]
      BY <1>2, <2>3 DEF IInv, TypeOK
    <3> QED
      BY <2>1, <2>2, <3>1, SilenceKept DEF Flush
  <2>4. CASE x = w
    <3>1. toMain'[w] = Append(toMain[w], m) /\ pending'[w] = NoItems
      BY <1>2 DEF IInv, TypeOK
    <3>2. LastUnsent(w, k) => LastUnsent(w, k)'
      <4>1. k \notin DOMAIN pending'[w] /\ cache' = cache
        BY <3>1, NoItemsIsUpdate DEF Flush
      <4>2. CASE k \in DOMAIN pending[w] /\ pending[w][k] = cache[w][k]
        <5>1. /\ Len(toMain[w]) + 1 \in 1..Len(toMain'[w])
              /\ LastAbout(toMain'[w], Len(toMain[w]) + 1, k)
              /\ toMain'[w][Len(toMain[w]) + 1].items[k] = cache[w][k]
          BY <1>1, <1>3, <3>1, <4>2, LastOfAppend
        <5> QED
          BY <4>1, <5>1 DEF LastUnsent, LastAbout
      <4>3. ASSUME k \notin DOMAIN pending[w],
                   NEW i \in 1..Len(toMain[w]), LastAbout(toMain[w], i, k),
                   toMain[w][i].items[k] = cache[w][k]
            PROVE  LastUnsent(w, k)'
        <5>1. /\ i \in 1..Len(toMain'[w])
              /\ LastAbout(toMain'[w], i, k)
              /\ toMain'[w][i].items[k] = cache[w][k]
          BY <1>1, <1>3, <3>1, <4>3, LastOfAppend
        <5> QED
          BY <4>1, <5>1 DEF LastUnsent, LastAbout
      <4> QED
        BY <4>2, <4>3 DEF LastUnsent
    <3> QED
      BY <2>1, <2>2, <2>4, <3>2 DEF Flush, SilenceIsAgreement, Silent
  <2> QED
    BY <2>3, <2>4
<1> QED
  BY <1>4, <1>5, <1>6 DEF IInv

\* close() only keeps a window from changing anything.
LEMMA CloseIInv == ASSUME IInv, NEW w \in Windows, Close(w) PROVE IInv'
<1>1. TypeOK'
  BY DEF Close, IInv, TypeOK
<1>2. ASSUME NEW x \in Windows PROVE Hears(x)'
  BY Constants DEF Close, IInv, TypeOK, Hears, Gap
<1>3. ASSUME NEW x \in Windows, NEW k \in Keys
      PROVE  (ToldTruth(x, k) /\ SilenceIsAgreement(x, k))'
  <2>1. state'[x] = "Initialized" => state[x] = "Initialized"
    BY DEF Close, IInv, TypeOK
  <2> QED
    BY <2>1, ToldTruthKept, SilenceKept DEF Close, IInv
<1> QED
  BY <1>1, <1>2, <1>3 DEF IInv

\* A window that is gone has nothing to agree with, whatever becomes of the
\* messages it has sent.
LEMMA LeaveIInv ==
    ASSUME IInv, NEW w \in Windows, Leave(w),
           NEW s \in Seq(Messages), toMain' = [toMain EXCEPT ![w] = s]
    PROVE  IInv'
<1>1. TypeOK'
  BY NoItemsIsUpdate DEF Leave, IInv, TypeOK, Maps, Empty, Contents
<1>2. ASSUME NEW x \in Windows PROVE Hears(x)'
  BY Constants DEF Leave, IInv, TypeOK, Hears, Gap
<1>3. ASSUME NEW x \in Windows, NEW k \in Keys
      PROVE  (ToldTruth(x, k) /\ SilenceIsAgreement(x, k))'
  <2>1. CASE x = w
    <3>1. toWindow'[w] = <<>> /\ state'[w] = "None"
      BY DEF Leave, IInv, TypeOK
    <3> QED
      BY <2>1, <3>1 DEF ToldTruth, SilenceIsAgreement
  <2>2. CASE x # w
    <3>1. /\ state'[x] = state[x] /\ cache'[x] = cache[x] /\ pending'[x] = pending[x]
          /\ toMain'[x] = toMain[x] /\ toWindow'[x] = toWindow[x]
      BY <2>2 DEF Leave, IInv, TypeOK
    <3> QED
      BY <3>1, ToldTruthKept, SilenceKept DEF Leave, IInv
  <2> QED
    BY <2>1, <2>2
<1> QED
  BY <1>1, <1>2, <1>3 DEF IInv

\* A window that takes the last message about a key has the value of main,
\* or an event is due.
LEMMA ReceiveIInv == ASSUME IInv, NEW w \in Windows, Receive(w) PROVE IInv'
<1> DEFINE m == Head(toWindow[w])
<1>1. toWindow[w] \in Seq(Messages) /\ toWindow[w] # <<>>
  BY DEF Receive, IInv, TypeOK
<1>2. m \in Messages /\ m = toWindow[w][1]
  BY <1>1
<1>3. m.items \in Updates /\ cache[w] \in Maps
  BY <1>2 DEF IInv, TypeOK, Messages
<1> HIDE DEF m
<1>4. /\ cache' = [cache EXCEPT ![w] = CacheAfter(w, m)]
      /\ state' = [state EXCEPT ![w] = IF m.type = "items" THEN "Initialized" ELSE @]
      /\ active' = [active EXCEPT ![w] = @ /\ m.type # "updated"]
      /\ toWindow' = [toWindow EXCEPT ![w] = Tail(@)]
  BY DEF Receive, m
<1>5. CacheAfter(w, m) \in Maps
  BY <1>3, OverMap DEF CacheAfter
<1>6. Tail(toWindow[w]) \in Seq(Messages)
  BY <1>1
<1>7. TypeOK'
  <2>1. active' \in [Windows -> BOOLEAN]
    BY <1>4 DEF IInv, TypeOK
  <2> QED
    BY <1>4, <1>5, <1>6, <2>1 DEF Receive, IInv, TypeOK
<1>8. ASSUME NEW x \in Windows PROVE Hears(x)'
  <2>1. w \in listeners \/ Gap(w)
    BY <1>1 DEF IInv, Hears
  <2> QED
    BY <1>4, <2>1, Constants
       DEF Receive, IInv, TypeOK, Hears, Gap
<1>9. ASSUME NEW x \in Windows, NEW k \in Keys
      PROVE  (ToldTruth(x, k) /\ SilenceIsAgreement(x, k))'
  <2>1. ToldTruth(x, k) /\ SilenceIsAgreement(x, k)
    BY DEF IInv
  <2>2. CASE x # w
    <3>1. state'[x] = state[x] /\ cache'[x] = cache[x] /\ toWindow'[x] = toWindow[x]
      BY <1>4, <2>2 DEF IInv, TypeOK
    <3> QED
      BY <2>1, <3>1, ToldTruthKept, SilenceKept DEF Receive
  <2>3. CASE x = w
    <3> DEFINE s == toWindow[w]
    <3>1. /\ Len(Tail(s)) = Len(s) - 1
          /\ Len(s) \in Nat \ {0}
          /\ \A i \in 1..(Len(s) - 1) : /\ Tail(s)[i] = s[i + 1]
                                       /\ LastAbout(Tail(s), i, k) <=> LastAbout(s, i + 1, k)
      BY <1>1, LastOfTail
    <3>2. toWindow'[w] = Tail(s) /\ cache'[w] = CacheAfter(w, m)
          /\ main' = main /\ changed' = changed /\ pending' = pending /\ toMain' = toMain
      BY <1>4 DEF Receive, IInv, TypeOK
    <3>3. \A i \in 1..Len(s) : LastAbout(s, i, k) => k \in changed \/ s[i].items[k] = main[k]
      BY <2>1, <2>3 DEF ToldTruth
    <3> HIDE DEF s
    <3>4. ToldTruth(w, k)'
      <4> SUFFICES ASSUME NEW i \in 1..Len(Tail(s)), LastAbout(Tail(s), i, k)
                   PROVE  k \in changed \/ Tail(s)[i].items[k] = main[k]
        BY <3>2 DEF ToldTruth, LastAbout
      <4>1. i \in 1..(Len(s) - 1) /\ i + 1 \in 1..Len(s)
        BY <3>1
      <4> QED
        BY <3>1, <3>3, <4>1
    <3>5. ASSUME state'[w] = "Initialized", Silent(w, k)'
          PROVE  k \in changed' \/ cache'[w][k] = main'[k] \/ LastUnsent(w, k)'
      <4>1. \A i \in 1..(Len(s) - 1) : k \notin DOMAIN s[i + 1].items
        BY <3>1, <3>2, <3>5 DEF Silent
      <4>2. \A j \in 1..Len(s) : j > 1 => k \notin DOMAIN s[j].items
        <5> SUFFICES ASSUME NEW j \in 1..Len(s), j > 1
                     PROVE  k \notin DOMAIN s[j].items
          OBVIOUS
        <5>1. j - 1 \in 1..(Len(s) - 1) /\ (j - 1) + 1 = j
          BY <3>1
        <5> QED
          BY <4>1, <5>1
      <4>3. m = s[1]
        BY <1>2 DEF s
      <4>4. CASE k \in DOMAIN m.items
        <5>1. LastAbout(s, 1, k) /\ 1 \in 1..Len(s)
          BY <3>1, <4>2, <4>3, <4>4 DEF LastAbout
        <5>2. k \in changed \/ m.items[k] = main[k]
          BY <3>3, <4>3, <5>1
        <5>3. ~(m.type = "change" /\ state[w] = "Closed")
          BY <1>4, <3>5 DEF IInv, TypeOK
        <5>4. cache'[w][k] = m.items[k]
          BY <1>3, <3>2, <4>4, <5>3, OverMap DEF CacheAfter
        <5> QED
          BY <3>2, <5>2, <5>4
      <4>5. CASE k \notin DOMAIN m.items
        <5>1. m.type # "items"
          BY <1>2, <4>5 DEF Messages
        <5>2. state[w] = "Initialized"
          BY <1>4, <3>5, <5>1 DEF IInv, TypeOK
        <5>3. Silent(w, k)
          BY <4>2, <4>3, <4>5, <3>1 DEF Silent, s
        <5>4. cache'[w][k] = cache[w][k]
          BY <1>3, <3>2, <4>5, OverMap DEF CacheAfter
        <5>5. k \in changed \/ cache[w][k] = main[k] \/ LastUnsent(w, k)
          BY <2>1, <2>3, <5>2, <5>3 DEF SilenceIsAgreement
        <5> QED
          BY <3>2, <5>4, <5>5 DEF LastUnsent, LastAbout
      <4> QED
        BY <4>4, <4>5
    <3> QED
      BY <2>3, <3>4, <3>5 DEF SilenceIsAgreement
  <2> QED
    BY <2>2, <2>3
<1> QED
  BY <1>7, <1>8, <1>9 DEF IInv

-----------------------------------------------------------------------------
(* The steps of the main process.                                          *)

\* What set() and delete() do to the items of main: a key that gets another
\* value is recorded as changed.
LEMMA UpdateMainRecords ==
    ASSUME TypeOK, NEW u \in Updates, UpdateMain(u)
    PROVE  /\ main' \in Maps /\ changed' \subseteq Keys /\ changed \subseteq changed'
           /\ \A k \in Keys : k \in changed' \/ main'[k] = main[k]
           /\ \A k \in DOMAIN u : main'[k] = u[k]
<1>1. main \in Maps /\ changed \subseteq Keys /\ DOMAIN u \subseteq Keys
  BY UpdateIsFunction DEF TypeOK
<1>2. main' = Over(main, u) /\ changed' = changed \cup {k \in DOMAIN u : main[k] # u[k]}
  BY DEF UpdateMain
<1> QED
  BY <1>1, <1>2, OverMap

\* A reply about nothing, and one with all items of main, are both true.
LEMMA ToldTruthReply ==
    ASSUME TypeOK, NEW w \in Windows, NEW k \in Keys, ToldTruth(w, k),
           NEW m \in Messages, toWindow'[w] \in {toWindow[w], Append(toWindow[w], m)},
           k \in DOMAIN m.items => k \in changed' \/ m.items[k] = main'[k],
           k \in changed => k \in changed',
           k \in changed' \/ main'[k] = main[k]
    PROVE  ToldTruth(w, k)' /\ (Silent(w, k)' => Silent(w, k))
<1> DEFINE s == toWindow[w]
<1>1. s \in Seq(Messages) /\ Len(s) \in Nat
  BY DEF TypeOK
<1>2. CASE toWindow'[w] = s
  BY <1>2, ToldTruthKept DEF Silent
<1>3. CASE toWindow'[w] = Append(s, m)
  <2>1. /\ Len(Append(s, m)) = Len(s) + 1
        /\ Append(s, m)[Len(s) + 1] = m
        /\ \A i \in 1..Len(s) : Append(s, m)[i] = s[i]
        /\ LastAbout(Append(s, m), Len(s) + 1, k) <=> k \in DOMAIN m.items
        /\ \A i \in 1..Len(s) : LastAbout(Append(s, m), i, k) => LastAbout(s, i, k)
    BY <1>1, LastOfAppend
  <2>2. \A i \in 1..Len(s) : LastAbout(s, i, k) => k \in changed \/ s[i].items[k] = main[k]
    BY DEF ToldTruth
  <2> DEFINE t == Append(s, m)
  <2> HIDE DEF t, s
  <2>3. ASSUME NEW i \in 1..Len(t), LastAbout(t, i, k)
        PROVE  k \in changed' \/ t[i].items[k] = main'[k]
    <3>1. i = Len(s) + 1 \/ i \in 1..Len(s)
      BY <1>1, <2>1 DEF t
    <3> QED
      BY <2>1, <2>2, <2>3, <3>1 DEF t
  <2>4. ToldTruth(w, k)'
    BY <1>3, <2>3 DEF ToldTruth, LastAbout, t
  <2>5. Silent(w, k)' => Silent(w, k)
    BY <1>1, <1>3, <2>1 DEF Silent, s
  <2> QED
    BY <2>4, <2>5
<1> QED
  BY <1>2, <1>3 DEF s

\* If main takes the last change of a window, their values are the same.
LEMMA LastUnsentTaken ==
    ASSUME TypeOK, NEW w \in Windows, NEW k \in Keys, toMain[w] # <<>>,
           toMain'[w] = Tail(toMain[w]), LastUnsent(w, k),
           pending' = pending, cache' = cache,
           k \in DOMAIN Head(toMain[w]).items => main'[k] = Head(toMain[w]).items[k]
    PROVE  cache'[w][k] = main'[k] \/ LastUnsent(w, k)'
<1> DEFINE s == toMain[w]
<1>1. s \in Seq(Messages) /\ s # <<>>
  BY DEF TypeOK
<1>2. /\ Len(Tail(s)) = Len(s) - 1
      /\ Len(s) \in Nat \ {0}
      /\ Head(s) = s[1]
      /\ \A i \in 1..(Len(s) - 1) : /\ Tail(s)[i] = s[i + 1]
                                   /\ LastAbout(Tail(s), i, k) <=> LastAbout(s, i + 1, k)
  BY <1>1, LastOfTail
<1>3. CASE k \in DOMAIN pending[w]
  BY <1>3 DEF LastUnsent
<1>4. CASE k \notin DOMAIN pending[w]
  <2>1. PICK i \in 1..Len(s) : LastAbout(s, i, k) /\ s[i].items[k] = cache[w][k]
    BY <1>4 DEF LastUnsent
  <2> HIDE DEF s
  <2>2. CASE i = 1
    BY <1>2, <2>1, <2>2 DEF LastAbout, s
  <2>3. CASE i # 1
    <3>1. i - 1 \in 1..(Len(s) - 1) /\ (i - 1) + 1 = i
      BY <1>2, <2>3
    <3>2. LastAbout(Tail(s), i - 1, k) /\ Tail(s)[i - 1].items[k] = cache[w][k]
      BY <1>2, <2>1, <3>1
    <3>3. i - 1 \in 1..Len(toMain'[w])
      BY <1>2, <3>1 DEF s
    <3> QED
      BY Zenon, <1>4, <3>2, <3>3 DEF LastUnsent, LastAbout, s
  <2> QED
    BY <2>2, <2>3
<1> QED
  BY <1>3, <1>4

\* The part that is common to the three kinds of messages: main takes the
\* first message of w, records what it changes, and answers the truth.
LEMMA HandleKeeps ==
    ASSUME IInv, NEW w \in Windows, toMain[w] # <<>>,
           toMain' = [toMain EXCEPT ![w] = Tail(@)],
           state' = state, cache' = cache, pending' = pending,
           NEW m \in Messages,
           toWindow' = toWindow \/ Reply(w, m),
           \A k \in DOMAIN m.items : m.items[k] = main'[k],
           changed \subseteq changed',
           \A k \in Keys : k \in changed' \/ main'[k] = main[k],
           \A k \in DOMAIN Head(toMain[w]).items : main'[k] = Head(toMain[w]).items[k]
    PROVE  \A x \in Windows, k \in Keys : (ToldTruth(x, k) /\ SilenceIsAgreement(x, k))'
<1> SUFFICES ASSUME NEW x \in Windows, NEW k \in Keys
             PROVE  (ToldTruth(x, k) /\ SilenceIsAgreement(x, k))'
  OBVIOUS
<1>1. ToldTruth(x, k) /\ SilenceIsAgreement(x, k)
  BY DEF IInv
<1>2. CASE x # w
  <2>1. toMain'[x] = toMain[x] /\ toWindow'[x] = toWindow[x]
    BY <1>2 DEF IInv, TypeOK, Reply
  <2> QED
    BY <1>1, <2>1, ToldTruthKept, SilenceKept
<1>3. CASE x = w
  <2>1. toWindow'[w] \in {toWindow[w], Append(toWindow[w], m)}
    BY DEF IInv, TypeOK, Reply
  <2>2. ToldTruth(w, k)' /\ (Silent(w, k)' => Silent(w, k))
    BY <1>1, <1>3, <2>1, ToldTruthReply DEF IInv
  <2>3. toMain'[w] = Tail(toMain[w])
    BY DEF IInv, TypeOK
  <2>4. LastUnsent(w, k) => cache'[w][k] = main'[k] \/ LastUnsent(w, k)'
    BY <2>3, LastUnsentTaken DEF IInv
  <2> QED
    BY <1>1, <1>3, <2>2, <2>4 DEF SilenceIsAgreement
<1> QED
  BY <1>2, <1>3

\* listen() and call() in the main process.
LEMMA HandleIInv == ASSUME IInv, NEW w \in Windows, Handle(w) PROVE IInv'
<1> DEFINE m == Head(toMain[w])
<1>1. toMain[w] \in Seq(Messages) /\ toMain[w] # <<>>
  BY DEF Handle, IInv, TypeOK
<1>2. m \in Messages /\ Tail(toMain[w]) \in Seq(Messages)
  BY <1>1
<1>3. m.items \in Updates
  BY <1>2 DEF Messages
<1> HIDE DEF m
<1>4. /\ toMain' = [toMain EXCEPT ![w] = Tail(@)]
      /\ state' = state /\ cache' = cache /\ pending' = pending /\ active' = active
  BY DEF Handle
<1>5. \/ /\ m.type = "listen"
         /\ listeners' = IF state[w] = "None" THEN listeners ELSE listeners \cup {w}
         /\ UNCHANGED <<main, changed, toWindow>>
      \/ /\ m.type = "getItems"
         /\ Reply(w, Message("items", main))
         /\ UNCHANGED <<main, changed, listeners>>
      \/ /\ m.type = "updateItems"
         /\ UpdateMain(m.items)
         /\ Reply(w, Message("updated", NoItems))
         /\ UNCHANGED listeners
  BY DEF Handle, m
<1>6. /\ Message("items", main) \in Messages /\ Message("items", main).items = main
      /\ Message("updated", NoItems) \in Messages
      /\ Message("updated", NoItems).items = NoItems
  BY MessageType, NoItemsIsUpdate DEF IInv, TypeOK
<1>7. TypeOK'
  <2>1. main' \in Maps /\ changed' \subseteq Keys
    BY <1>3, <1>5, UpdateMainRecords DEF IInv, TypeOK
  <2>2. toWindow' \in [Windows -> Seq(Messages)]
    <3>1. ASSUME NEW r \in Messages, Reply(w, r)
          PROVE  toWindow' \in [Windows -> Seq(Messages)]
      BY <3>1 DEF IInv, TypeOK, Reply
    <3> QED
      BY <1>5, <1>6, <3>1 DEF IInv, TypeOK
  <2>3. toMain' \in [Windows -> Seq(Messages)]
    BY <1>2, <1>4 DEF IInv, TypeOK
  <2> QED
    BY <1>4, <1>5, <2>1, <2>2, <2>3 DEF IInv, TypeOK
<1>8. ASSUME NEW x \in Windows PROVE Hears(x)'
  <2>1. Hears(x)
    BY DEF IInv
  <2>2. CASE x # w
    <3>1. toMain'[x] = toMain[x] /\ toWindow'[x] = toWindow[x]
          /\ (x \in listeners' <=> x \in listeners)
      BY <1>4, <1>5, <2>2 DEF IInv, TypeOK, Reply
    <3> QED
      BY Zenon, <1>4, <2>1, <3>1, Constants DEF Hears, Gap
  <2>3. CASE x = w /\ state[w] = "None"
    <3>1. toWindow'[w] = toWindow[w] /\ listeners' = listeners
      BY <1>5, <2>3 DEF IInv, TypeOK, Reply
    <3> QED
      <4>1. ~Gap(w) /\ ~Gap(w)'
        BY <1>4, <2>3 DEF Gap
      <4> QED
        BY <1>4, <2>1, <2>3, <3>1, <4>1, Constants DEF Hears
  <2>4. CASE x = w /\ state[w] # "None"
    <3>1. CASE w \in listeners \/ m.type = "listen"
      <4>1. w \in listeners'
        BY <1>5, <2>4, <3>1
      <4> QED
        BY <1>4, <2>4, <4>1 DEF Hears
    <3>2. CASE w \notin listeners /\ m.type # "listen"
      <4>1. /\ ListenFirst # <<>> /\ Head(ListenFirst).type = "listen"
            /\ Tail(GetItemsFirst) = <<Message("listen", NoItems)>>
            /\ Message("listen", NoItems).type = "listen"
            /\ Tail(GetItemsFirst) # ListenFirst
        BY MessageType DEF ListenFirst, GetItemsFirst
      <4>2. ~Gap(w)
        BY <3>2 DEF Gap, m
      <4>3. toMain[w] = GetItemsFirst
        BY <2>1, <2>4, <3>2, <4>1, <4>2 DEF Hears, m
      <4>4. toMain'[w] = Tail(GetItemsFirst)
        BY <1>4, <4>3 DEF IInv, TypeOK
      <4>5. Gap(w)'
        <5>1. <<Message("listen", NoItems)>> # <<>>
              /\ Head(<<Message("listen", NoItems)>>) = Message("listen", NoItems)
          OBVIOUS
        <5> QED
          BY Zenon, <1>4, <2>4, <4>1, <4>4, <5>1, Constants DEF Gap
      <4> QED
        BY <1>4, <2>4, <4>5 DEF Hears
    <3> QED
      BY <3>1, <3>2
  <2> QED
    BY <2>2, <2>3, <2>4
<1>9. \A x \in Windows, k \in Keys : (ToldTruth(x, k) /\ SilenceIsAgreement(x, k))'
  <2>1. CASE m.type = "updateItems" /\ UpdateMain(m.items)
             /\ Reply(w, Message("updated", NoItems))
    <3>1. /\ changed \subseteq changed'
          /\ \A k \in Keys : k \in changed' \/ main'[k] = main[k]
          /\ \A k \in DOMAIN m.items : main'[k] = m.items[k]
      BY <1>3, <2>1, UpdateMainRecords DEF IInv
    <3> QED
      BY Zenon, <1>1, <1>4, <1>6, <2>1, <3>1, HandleKeeps, NoItemsIsUpdate DEF m
  <2>2. CASE m.type \in {"listen", "getItems"} /\ UNCHANGED <<main, changed>>
             /\ (toWindow' = toWindow \/ Reply(w, Message("items", main)))
    <3>1. DOMAIN m.items = {}
      BY <1>2, <2>2 DEF Messages
    <3> QED
      BY Zenon, <1>1, <1>4, <1>6, <2>2, <3>1, HandleKeeps DEF m
  <2> QED
    BY <1>5, <2>1, <2>2
<1> QED
  BY <1>7, <1>8, <1>9 DEF IInv

\* The main process sets a key itself.
LEMMA SetMainIInv ==
    ASSUME IInv, NEW l \in Keys, NEW v \in Contents, SetMain(l, v)
    PROVE  IInv'
<1> DEFINE u == [x \in {l} |-> v]
<1>1. u \in Updates
  <2>1. u \in [{l} -> Contents] /\ {l} \in SUBSET Keys
    OBVIOUS
  <2> QED
    BY Zenon, <2>1 DEF Updates
<1>2. UpdateMain(u)
  BY DEF SetMain
<1> HIDE DEF u
<1>3. /\ main' \in Maps /\ changed' \subseteq Keys /\ changed \subseteq changed'
      /\ \A k \in Keys : k \in changed' \/ main'[k] = main[k]
  BY <1>1, <1>2, UpdateMainRecords DEF IInv
<1>4. TypeOK'
  BY <1>3 DEF SetMain, IInv, TypeOK
<1>5. ASSUME NEW x \in Windows PROVE Hears(x)'
  BY Constants DEF SetMain, IInv, Hears, Gap
<1>6. ASSUME NEW x \in Windows, NEW k \in Keys
      PROVE  (ToldTruth(x, k) /\ SilenceIsAgreement(x, k))'
  BY <1>3, ToldTruthKept, SilenceKept DEF SetMain, IInv
<1> QED
  BY <1>4, <1>5, <1>6 DEF IInv

\* The change event tells every window that listens the values of main.
LEMMA FireChangesIInv == ASSUME IInv, FireChanges PROVE IInv'
<1> DEFINE u == [k \in changed |-> main[k]]
           e == Message("change", u)
<1>1. u \in Updates /\ DOMAIN u = changed /\ \A k \in changed : u[k] = main[k]
  <2>1. \A k \in changed : main[k] \in Contents
    BY DEF IInv, TypeOK, Maps
  <2>2. u \in [changed -> Contents]
    BY <2>1
  <2> QED
    BY <2>2 DEF IInv, TypeOK, Updates
<1> HIDE DEF u
<1>2. e \in Messages /\ e.items = u
  BY <1>1, MessageType
<1> HIDE DEF e
<1>3. /\ toWindow' = [w \in Windows |-> IF w \in listeners THEN Append(toWindow[w], e)
                                        ELSE toWindow[w]]
      /\ changed' = {}
      /\ UNCHANGED <<state, cache, pending, active, main, listeners, toMain>>
  BY DEF FireChanges, e, u
<1>4. TypeOK'
  BY <1>2, <1>3 DEF IInv, TypeOK
<1>5. ASSUME NEW x \in Windows PROVE Hears(x)'
  BY <1>3, Constants DEF IInv, Hears, Gap
<1>6. ASSUME NEW x \in Windows, NEW k \in Keys
      PROVE  (ToldTruth(x, k) /\ SilenceIsAgreement(x, k))'
  <2> DEFINE s == toWindow[x]
  <2>1. ToldTruth(x, k) /\ SilenceIsAgreement(x, k)
    BY DEF IInv
  <2>2. CASE x \notin listeners
    <3>1. toWindow'[x] = <<>> /\ state'[x] # "Initialized"
      <4>1. ~Gap(x) /\ Hears(x)
        BY DEF FireChanges, IInv
      <4> QED
        BY <1>3, <2>2, <4>1 DEF Hears
    <3> QED
      BY <3>1 DEF ToldTruth, SilenceIsAgreement
  <2>3. CASE x \in listeners
    <3>1. s \in Seq(Messages) /\ Len(s) \in Nat /\ toWindow'[x] = Append(s, e)
      BY <1>3, <2>3 DEF IInv, TypeOK
    <3>2. /\ Len(Append(s, e)) = Len(s) + 1
          /\ Append(s, e)[Len(s) + 1] = e
          /\ \A i \in 1..Len(s) : Append(s, e)[i] = s[i]
          /\ \A i \in 1..Len(s) : LastAbout(Append(s, e), i, k) =>
                                   LastAbout(s, i, k) /\ k \notin changed
          /\ LastAbout(Append(s, e), Len(s) + 1, k) => k \in changed
      BY <1>1, <1>2, <3>1, LastOfAppend
    <3>3. \A i \in 1..Len(s) : LastAbout(s, i, k) => k \in changed \/ s[i].items[k] = main[k]
      BY <2>1 DEF ToldTruth
    <3> DEFINE t == Append(s, e)
    <3> HIDE DEF t, s
    <3>4. ASSUME NEW i \in 1..Len(t), LastAbout(t, i, k)
          PROVE  t[i].items[k] = main[k]
      <4>1. i = Len(s) + 1 \/ i \in 1..Len(s)
        BY <3>1, <3>2 DEF t
      <4>2. CASE i = Len(s) + 1
        BY <1>1, <1>2, <3>2, <3>4, <4>2 DEF t
      <4>3. CASE i \in 1..Len(s)
        BY <3>2, <3>3, <3>4, <4>3 DEF t
      <4> QED
        BY <4>1, <4>2, <4>3
    <3>5. ToldTruth(x, k)'
      BY Zenon, <1>3, <3>1, <3>4 DEF ToldTruth, t
    <3>6. Silent(x, k)' => Silent(x, k) /\ k \notin changed
      BY <1>1, <1>2, <3>1, <3>2 DEF Silent, s
    <3>7. LastUnsent(x, k) => LastUnsent(x, k)'
      BY <1>3 DEF LastUnsent, LastAbout
    <3> QED
      BY <1>3, <2>1, <3>5, <3>6, <3>7 DEF SilenceIsAgreement
  <2> QED
    BY <2>2, <2>3
<1> QED
  BY <1>4, <1>5, <1>6 DEF IInv

-----------------------------------------------------------------------------
(* The theorems.                                                           *)

\* The invariant of the shared storage holds in every state.
THEOREM Invariant == Spec => []IInv
<1>1. ASSUME IInv, [Next]_vars
      PROVE  IInv'
  <2>1. ASSUME NEW w \in Windows, Closed(w)
        PROVE  IInv'
    <3>1. toMain[w] \in Seq(Messages) /\ toMain' = [toMain EXCEPT ![w] = toMain[w]]
      BY <1>1, <2>1 DEF Closed, IInv, TypeOK
    <3> QED
      BY Zenon, <1>1, <2>1, <3>1, LeaveIInv DEF Closed
  <2>2. ASSUME NEW w \in Windows, Crash(w)
        PROVE  IInv'
    <3>1. PICK n \in 0..Len(toMain[w]) :
            toMain' = [toMain EXCEPT ![w] = SubSeq(@, 1, n)]
      BY Zenon, <2>2 DEF Crash
    <3>2. SubSeq(toMain[w], 1, n) \in Seq(Messages)
      BY <1>1 DEF IInv, TypeOK
    <3> QED
      BY Zenon, <1>1, <2>2, <3>1, <3>2, LeaveIInv DEF Crash
  <2>3. CASE UNCHANGED vars
    <3>1. TypeOK'
      BY <1>1, <2>3 DEF vars, IInv, TypeOK
    <3>2. ASSUME NEW x \in Windows PROVE Hears(x)'
      BY <1>1, <2>3, Constants
         DEF vars, IInv, Hears, Gap
    <3>3. ASSUME NEW x \in Windows, NEW k \in Keys
          PROVE  (ToldTruth(x, k) /\ SilenceIsAgreement(x, k))'
      BY <1>1, <2>3, ToldTruthKept, SilenceKept DEF vars, IInv
    <3> QED
      BY <3>1, <3>2, <3>3 DEF IInv
  <2> QED
    BY <1>1, <2>1, <2>2, <2>3, OpenIInv, SetIInv, FlushIInv, ReceiveIInv, CloseIInv,
       HandleIInv, SetMainIInv, FireChangesIInv DEF Next
<1> QED
  BY <1>1, InitIInv, PTL DEF Spec

\* Whenever a window and the main process have different values of a key, a
\* message about the key is under way between them, or waits for a timer.
THEOREM DivergenceEnds == Spec => []DivergenceIsUnderWay
<1>1. IInv => DivergenceIsUnderWay
  <2> SUFFICES ASSUME IInv, NEW w \in Windows, NEW k \in Keys,
                      state[w] = "Initialized", cache[w][k] # main[k],
                      ~Untold(w, k)
               PROVE  Unsent(w, k)
    BY DEF DivergenceIsUnderWay
  <2>1. toWindow[w] \in Seq(Messages) /\ toMain[w] \in Seq(Messages)
    BY DEF IInv, TypeOK
  <2>2. Silent(w, k) /\ k \notin changed
    BY <2>1 DEF Untold, Silent
  <2>3. LastUnsent(w, k)
    BY Zenon, <2>2 DEF IInv, SilenceIsAgreement
  <2>4. DOMAIN toMain[w] = 1..Len(toMain[w])
    BY <2>1
  <2> QED
    BY Zenon, <2>3, <2>4 DEF LastUnsent, LastAbout, Unsent
<1> QED
  BY <1>1, Invariant, PTL
=============================================================================
