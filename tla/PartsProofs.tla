----------------------------- MODULE PartsProofs -----------------------------
(***************************************************************************)
(* Proofs about four components that share nothing, each for any number of *)
(* the objects it is about: what connx_log hands to a callback (Log),      *)
(* slices as values (Slices), who owns what behind the C interface (CApi)  *)
(* and the timers of the poll thread (PollLoop).                           *)
(***************************************************************************)
EXTENDS PollLoop, Slices, CApi, Log, TLAPS

-----------------------------------------------------------------------------
(* The log sink. *)

LogCalls ==
  [at : {"-", "load", "call"}, level : Int, loads : SUBSET {"fn", "data"},
   fn : LogCallbacks \cup {NoCallback, Default},
   data : {<<>>} \cup {<<f>> : f \in LogCallbacks}, alone : BOOLEAN]

LogTypeOK ==
  /\ g_seq \in Nat
  /\ g_log_function \in LogCallbacks \cup {NoCallback, Default}
  /\ g_user_data \in {<<>>} \cup {<<f>> : f \in LogCallbacks}
  /\ setting \in [fn : LogCallbacks \cup {NoCallback}, stores : SUBSET {"fn", "data"}]
  /\ logging \in [LogThreads -> LogCalls]

\* Between two settings the words agree; during one, a word that is stored has
\* its new value.
SettingInv ==
  /\ g_seq % 2 = 0 => setting.stores = {} /\ g_user_data = DataOf(g_log_function)
  /\ g_seq % 2 = 1 =>
       /\ "fn" \notin setting.stores => g_log_function = setting.fn
       /\ "data" \notin setting.stores => g_user_data = DataOf(setting.fn)

\* A connx_log with the sink to itself has loaded what is still there.
LoadedInv(l) ==
  /\ l.at \in {"-", "call"} => l.loads = {}
  /\ l.at # "-" /\ l.alone =>
       /\ g_seq % 2 = 0 /\ l.level >= g_min_level
       /\ "fn" \notin l.loads => l.fn = g_log_function
       /\ "data" \notin l.loads => l.data = g_user_data

LogInv == LogTypeOK /\ SettingInv /\ \A t \in LogThreads : LoadedInv(logging[t])

LEMMA LogInitInv == LogInit => LogInv
<1> SUFFICES ASSUME LogInit PROVE LogInv
  BY Zenon
<1>1. NotLogging \in LogCalls
  BY LogAssumption, Zenon DEF NotLogging, LogCalls
<1>2. LogTypeOK
  BY <1>1, Zenon DEF LogInit, LogTypeOK, NotSetting
<1>3. SettingInv
  BY LogAssumption DEF LogInit, SettingInv, NotSetting, DataOf
<1>4. \A t \in LogThreads : LoadedInv(logging[t])
  BY Zenon DEF LogInit, LoadedInv, NotLogging
<1> QED
  BY <1>2, <1>3, <1>4, Zenon DEF LogInv

\* User data is none or belongs to a callback.
LEMMA DataType == \A fn : DataOf(fn) \in {<<>>} \cup {<<f>> : f \in LogCallbacks}
  BY Zenon DEF DataOf

\* A disturbed call knows nothing.
LEMMA Disturbed ==
  ASSUME LogInv, logging' = Disturb
  PROVE  /\ logging' \in [LogThreads -> LogCalls]
         /\ \A t \in LogThreads :
              /\ logging'[t].at \in {"-", "call"} => logging'[t].loads = {}
              /\ logging'[t].at # "-" => ~logging'[t].alone
<1> SUFFICES ASSUME NEW t \in LogThreads
             PROVE  /\ logging'[t] \in LogCalls
                    /\ logging'[t].at \in {"-", "call"} => logging'[t].loads = {}
                    /\ logging'[t].at # "-" => ~logging'[t].alone
  BY Zenon DEF Disturb
<1>1. logging[t] \in LogCalls /\ LoadedInv(logging[t])
  BY Zenon DEF LogInv, LogTypeOK
<1>2. PICK b \in BOOLEAN : b = (logging[t].alone /\ logging[t].at = "-")
  BY <1>1, ZenonT(40) DEF LogCalls
<1>3. logging'[t] = [logging[t] EXCEPT !.alone = b]
  BY <1>2, Zenon DEF Disturb
<1>4. /\ logging'[t] \in LogCalls
      /\ logging'[t].at = logging[t].at /\ logging'[t].loads = logging[t].loads
      /\ logging'[t].alone = b
  BY <1>1, <1>3 DEF LogCalls
<1> QED
  BY <1>1, <1>2, <1>4, ZenonT(40) DEF LoadedInv

\* Steps of a thread that logs: its call gets the value l, and the sink stays.
LEMMA LogCallStep ==
  ASSUME LogInv, NEW t \in LogThreads, NEW l \in LogCalls, LoadedInv(l),
         logging' = [logging EXCEPT ![t] = l],
         UNCHANGED <<g_seq, g_log_function, g_user_data, g_min_level, setting>>
  PROVE  LogInv'
<1>1. LogTypeOK'
  BY Zenon DEF LogInv, LogTypeOK
<1>2. SettingInv'
  BY Zenon DEF LogInv, SettingInv
<1>3. \A u \in LogThreads : LoadedInv(logging[u])'
  <2> SUFFICES ASSUME NEW u \in LogThreads PROVE LoadedInv(logging[u])'
    BY Zenon
  <2>1. LoadedInv(logging'[u])
    BY Zenon DEF LogInv, LogTypeOK
  <2> QED
    BY <2>1, Zenon DEF LoadedInv
<1> QED
  BY <1>1, <1>2, <1>3, Zenon DEF LogInv

LEMMA LogStep == LogInv /\ [LogNext]_logVars => LogInv'
<1> SUFFICES ASSUME LogInv, [LogNext]_logVars PROVE LogInv'
  BY Zenon
<1>1. ASSUME NEW level, connx_log_set_min_level(level)
      PROVE  LogInv'
  <2>1. logging' = Disturb /\ UNCHANGED <<g_seq, g_log_function, g_user_data, setting>>
    BY <1>1, Zenon DEF connx_log_set_min_level
  <2>2. LogTypeOK' /\ SettingInv'
    BY <2>1, Disturbed DEF LogInv, LogTypeOK, SettingInv
  <2> QED
    BY <2>1, <2>2, Disturbed, Zenon DEF LogInv, LoadedInv
<1>2. ASSUME NEW fn \in LogCallbacks \cup {NoCallback}, SetBegin(fn)
      PROVE  LogInv'
  <2>1. /\ g_seq \in Nat /\ g_seq % 2 = 0 /\ g_seq' = g_seq + 1
        /\ setting' = [fn |-> fn, stores |-> {"fn", "data"}]
        /\ logging' = Disturb /\ UNCHANGED <<g_log_function, g_user_data>>
    BY <1>2, Zenon DEF SetBegin, LogInv, LogTypeOK
  <2>2. g_seq' % 2 = 1
    BY <2>1
  <2>3. LogTypeOK'
    <3>1. g_seq' \in Nat /\ setting' \in [fn : LogCallbacks \cup {NoCallback},
                                          stores : SUBSET {"fn", "data"}]
      BY <2>1
    <3>2. logging' \in [LogThreads -> LogCalls]
      BY <2>1, Disturbed, Zenon
    <3> QED
      BY <2>1, <3>1, <3>2, Zenon DEF LogInv, LogTypeOK
  <2>4. SettingInv'
    BY <2>1, <2>2 DEF SettingInv
  <2> QED
    BY <2>1, <2>3, <2>4, Disturbed, Zenon DEF LogInv, LoadedInv
<1>3. CASE SetFunction
  <2>1. g_seq % 2 = 1
    BY <1>3 DEF SetFunction, LogInv, LogTypeOK, SettingInv
  <2>2. /\ setting'.fn = setting.fn /\ setting'.stores = setting.stores \ {"fn"}
        /\ LogTypeOK'
    BY <1>3, Zenon DEF SetFunction, LogInv, LogTypeOK
  <2>3. SettingInv'
    BY <1>3, <2>1, <2>2, Zenon DEF SetFunction, LogInv, SettingInv, DataOf
  <2> QED
    BY <1>3, <2>1, <2>2, <2>3 DEF SetFunction, LogInv, LoadedInv
<1>4. CASE SetData
  <2>1. g_seq % 2 = 1
    BY <1>4 DEF SetData, LogInv, LogTypeOK, SettingInv
  <2>2. /\ setting'.fn = setting.fn /\ setting'.stores = setting.stores \ {"data"}
        /\ LogTypeOK'
    BY <1>4, DataType, Zenon DEF SetData, LogInv, LogTypeOK
  <2>3. SettingInv'
    BY <1>4, <2>1, <2>2, Zenon DEF SetData, LogInv, SettingInv, DataOf
  <2> QED
    BY <1>4, <2>1, <2>2, <2>3 DEF SetData, LogInv, LoadedInv
<1>5. CASE SetEnd
  <2>1. /\ g_seq \in Nat /\ g_seq % 2 = 1 /\ g_seq' = g_seq + 1
        /\ setting.stores = {} /\ setting' = NotSetting
        /\ UNCHANGED <<g_log_function, g_user_data, g_min_level, logging>>
    BY <1>5, Zenon DEF SetEnd, LogInv, LogTypeOK
  <2>2. g_seq' % 2 = 0
    BY <2>1
  <2>3. LogTypeOK'
    BY <2>1 DEF LogInv, LogTypeOK, NotSetting
  <2>4. SettingInv'
    BY <2>1, <2>2 DEF LogInv, SettingInv, NotSetting, DataOf
  <2> QED
    BY <2>1, <2>3, <2>4, SMTT(30) DEF LogInv, LoadedInv
<1>6. ASSUME NEW t \in LogThreads, NEW level \in TRACE .. ERROR, LogBegin(t, level)
      PROVE  LogInv'
  <2> DEFINE l(alone) == [at |-> "load", level |-> level, loads |-> {"fn", "data"},
                          fn |-> NoCallback, data |-> <<>>, alone |-> alone]
  <2>1. level \in Int /\ level >= g_min_level
    BY <1>6, LogAssumption DEF LogBegin
  <2>2. \A alone \in BOOLEAN :
          /\ l(alone) \in LogCalls
          /\ (alone => g_seq % 2 = 0) => LoadedInv(l(alone))
    BY <2>1, Zenon DEF LogCalls, LoadedInv
  <2>3. logging' = [logging EXCEPT ![t] = l(g_seq % 2 = 0)]
    BY <1>6, Zenon, ZenonT(40) DEF LogBegin
  <2>4. UNCHANGED <<g_seq, g_log_function, g_user_data, g_min_level, setting>>
    BY <1>6, Zenon DEF LogBegin
  <2>5. l(g_seq % 2 = 0) \in LogCalls /\ LoadedInv(l(g_seq % 2 = 0))
    <3> HIDE DEF l
    <3> QED
      BY <2>2, Zenon
  <2> HIDE DEF l
  <2> QED
    BY <2>3, <2>4, <2>5, LogCallStep, ZenonT(40)
<1>7. ASSUME NEW t \in LogThreads, LogFunction(t)
      PROVE  LogInv'
  <2> DEFINE l == [logging[t] EXCEPT !.loads = @ \ {"fn"}, !.fn = g_log_function]
  <2>1. logging[t] \in LogCalls /\ LoadedInv(logging[t]) /\ "fn" \in logging[t].loads
    BY <1>7, Zenon DEF LogFunction, LogInv, LogTypeOK
  <2>2. l \in LogCalls /\ LoadedInv(l)
    BY <2>1, ZenonT(40) DEF LogCalls, LoadedInv, LogInv, LogTypeOK
  <2>3. /\ logging' = [logging EXCEPT ![t] = l]
        /\ UNCHANGED <<g_seq, g_log_function, g_user_data, g_min_level, setting>>
    BY <1>7, ZenonT(40) DEF LogFunction, LogInv, LogTypeOK
  <2> QED
    BY <2>2, <2>3, LogCallStep, ZenonT(40)
<1>8. ASSUME NEW t \in LogThreads, LogData(t)
      PROVE  LogInv'
  <2> DEFINE l == [logging[t] EXCEPT !.loads = @ \ {"data"}, !.data = g_user_data]
  <2>1. logging[t] \in LogCalls /\ LoadedInv(logging[t]) /\ "data" \in logging[t].loads
    BY <1>8, Zenon DEF LogData, LogInv, LogTypeOK
  <2>2. l \in LogCalls /\ LoadedInv(l)
    BY <2>1, ZenonT(40) DEF LogCalls, LoadedInv, LogInv, LogTypeOK
  <2>3. /\ logging' = [logging EXCEPT ![t] = l]
        /\ UNCHANGED <<g_seq, g_log_function, g_user_data, g_min_level, setting>>
    BY <1>8, ZenonT(40) DEF LogData, LogInv, LogTypeOK
  <2> QED
    BY <2>2, <2>3, LogCallStep, ZenonT(40)
<1>9. NotLogging \in LogCalls /\ LoadedInv(NotLogging)
  BY LogAssumption, Zenon DEF NotLogging, LogCalls, LoadedInv
<1>10. ASSUME NEW t \in LogThreads, LogCall(t)
       PROVE  LogInv'
  <2> DEFINE l == [logging[t] EXCEPT !.at = "call"]
  <2>1. logging[t] \in LogCalls /\ LoadedInv(logging[t])
        /\ logging[t].at = "load" /\ logging[t].loads = {}
    BY <1>10, Zenon DEF LogCall, LogInv, LogTypeOK
  <2>2. l \in LogCalls /\ LoadedInv(l)
    BY <2>1, Zenon DEF LogCalls, LoadedInv
  <2>3. /\ \/ logging' = [logging EXCEPT ![t] = l]
           \/ logging' = [logging EXCEPT ![t] = NotLogging]
        /\ UNCHANGED <<g_seq, g_log_function, g_user_data, g_min_level, setting>>
    BY <1>10, ZenonT(40) DEF LogCall, LogInv, LogTypeOK
  <2> QED
    BY <1>9, <2>2, <2>3, LogCallStep, Zenon
<1>11. ASSUME NEW t \in LogThreads, LogReturn(t)
       PROVE  LogInv'
  BY <1>9, <1>11, LogCallStep, ZenonT(40) DEF LogReturn
<1>12. CASE UNCHANGED logVars
  BY <1>12 DEF logVars, LogInv, LogTypeOK, SettingInv, DataOf, LoadedInv
<1> QED
  BY <1>1, <1>2, <1>3, <1>4, <1>5, <1>6, <1>7, <1>8, <1>10, <1>11, <1>12, Zenon DEF LogNext

(***************************************************************************)
(* A connx_log that no setter overlaps hands its callback the user data    *)
(* that was set with it, for any number of threads and callbacks: the two  *)
(* words may be loaded and stored in either order.                         *)
(***************************************************************************)
THEOREM LogHandsOutItsData == LogInit /\ [][LogNext]_logVars => []LogCallbackGetsItsData
<1>1. LogInv => LogCallbackGetsItsData
  BY Zenon DEF LogInv, LoadedInv, SettingInv, LogCallbackGetsItsData, DataOf
<1> QED
  BY <1>1, LogInitInv, LogStep, PTL

-----------------------------------------------------------------------------
(* Slices. *)

SliceRecords ==
  [refs_ : Blocks \cup {nullptr}, bytes : Seq(Nat), first : Nat \ {0}, length : Nat]

SlicesTypeOK ==
  /\ slice \in [Slots -> SliceRecords]
  /\ refs \in [Blocks -> Nat]
  /\ memory \in [Blocks -> Seq(Nat)]

\* The slots of t that refer to block b.
Users(t, b) == {x \in Slots : t[x].refs_ = b}

\* What slice s sees is there if the blocks hold mem, and what it is.
Fits(s, mem) ==
  IF s.refs_ = nullptr THEN s.length = Len(s.bytes)
  ELSE s.first + s.length <= Len(mem[s.refs_]) + 1
DataIn(s, mem) ==
  IF s.refs_ = nullptr THEN s.bytes
  ELSE SubSeq(mem[s.refs_], s.first, s.first + s.length - 1)

SlicesInv ==
  /\ SlicesTypeOK
  /\ \A b \in Blocks : refs[b] = Cardinality(Users(slice, b))
  /\ \A x \in Slots : Fits(slice[x], memory)

\* The bytes of a part of a sequence.
LEMMA PartOfSeq ==
  ASSUME NEW S, NEW s \in Seq(S), NEW m \in 1 .. Len(s) + 1, NEW n \in 0 .. Len(s), m <= n + 1
  PROVE  /\ SubSeq(s, m, n) \in Seq(S) /\ Len(SubSeq(s, m, n)) = n - m + 1
         /\ \A i \in 1 .. n - m + 1 : SubSeq(s, m, n)[i] = s[m + i - 1]
  OBVIOUS

\* Sequences of the same length with the same elements are one.
LEMMA SameSeq ==
  ASSUME NEW S, NEW s \in Seq(S), NEW t \in Seq(S),
         Len(s) = Len(t), \A i \in 1 .. Len(s) : s[i] = t[i]
  PROVE  s = t
  OBVIOUS

\* The part that is the whole, and a part of a part.
LEMMA WholeSeq ==
  ASSUME NEW S, NEW s \in Seq(S)
  PROVE  SubSeq(s, 1, Len(s)) = s
<1>1. Len(s) \in Nat
  OBVIOUS
<1>2. /\ SubSeq(s, 1, Len(s)) \in Seq(S) /\ Len(SubSeq(s, 1, Len(s))) = Len(s)
      /\ \A i \in 1 .. Len(s) : SubSeq(s, 1, Len(s))[i] = s[i]
  BY <1>1, PartOfSeq
<1> QED
  BY <1>2, SameSeq, Zenon

LEMMA PartOfPart ==
  ASSUME NEW S, NEW s \in Seq(S), NEW i \in 1 .. Len(s) + 1, NEW j \in 0 .. Len(s), i <= j + 1,
         NEW m \in 1 .. j - i + 2, NEW n \in 0 .. j - i + 1, m <= n + 1
  PROVE  SubSeq(SubSeq(s, i, j), m, n) = SubSeq(s, i + m - 1, i + n - 1)
<1> DEFINE t == SubSeq(s, i, j)
<1>1. /\ t \in Seq(S) /\ Len(t) = j - i + 1
      /\ \A k \in 1 .. j - i + 1 : t[k] = s[i + k - 1]
  BY PartOfSeq, ZenonT(40)
<1>2. /\ SubSeq(t, m, n) \in Seq(S) /\ Len(SubSeq(t, m, n)) = n - m + 1
      /\ \A k \in 1 .. n - m + 1 : SubSeq(t, m, n)[k] = t[m + k - 1]
  BY <1>1, PartOfSeq
<1>3. /\ SubSeq(s, i + m - 1, i + n - 1) \in Seq(S)
      /\ Len(SubSeq(s, i + m - 1, i + n - 1)) = n - m + 1
      /\ \A k \in 1 .. n - m + 1 : SubSeq(s, i + m - 1, i + n - 1)[k] = s[i + m + k - 2]
  BY PartOfSeq
<1>4. ASSUME NEW k \in 1 .. n - m + 1 PROVE SubSeq(t, m, n)[k] = SubSeq(s, i + m - 1, i + n - 1)[k]
  <2>1. PICK l \in 1 .. j - i + 1 : l = m + k - 1 /\ i + l - 1 = i + m + k - 2
    OBVIOUS
  <2>2. SubSeq(t, m, n)[k] = t[l] /\ t[l] = s[i + l - 1]
    BY <1>1, <1>2, <2>1, Zenon
  <2>3. SubSeq(s, i + m - 1, i + n - 1)[k] = s[i + l - 1]
    BY <1>3, <2>1, Zenon
  <2> QED
    BY <2>2, <2>3, Zenon
<1> QED
  BY <1>2, <1>3, <1>4, SameSeq, ZenonT(40)

LEMMA ExceptsCommute ==
  ASSUME NEW f, NEW b, NEW c, NEW u, NEW v, b # c
  PROVE  [[f EXCEPT ![c] = v] EXCEPT ![b] = u] = [[f EXCEPT ![b] = u] EXCEPT ![c] = v]
<1> DEFINE left == [[f EXCEPT ![c] = v] EXCEPT ![b] = u]
           right == [[f EXCEPT ![b] = u] EXCEPT ![c] = v]
<1>1. DOMAIN left = DOMAIN f /\ DOMAIN right = DOMAIN f
  BY Zenon
<1>2. \A d \in DOMAIN f : left[d] = right[d]
  BY Zenon
<1>3. left = [d \in DOMAIN f |-> left[d]] /\ right = [d \in DOMAIN f |-> right[d]]
  BY ZenonT(40)
<1> HIDE DEF left, right
<1>4. left = right
  BY <1>1, <1>2, <1>3, Zenon
<1> QED
  BY <1>4, Zenon DEF left, right

\* What is used of the theory of finite sets; CountingHolds shows it.
Counting ==
  /\ \A S \in SUBSET Slots : IsFiniteSet(S)
  /\ Cardinality({}) = 0
  /\ \A S : IsFiniteSet(S) =>
       /\ Cardinality(S) \in Nat /\ (Cardinality(S) = 0 => S = {})
       /\ \A x : IF x \in S THEN Cardinality(S \ {x}) = Cardinality(S) - 1
                 ELSE Cardinality(S \cup {x}) = Cardinality(S) + 1

LEMMA UsersFinite ==
  ASSUME Counting
  PROVE  \A t, b : IsFiniteSet(Users(t, b)) /\ Cardinality(Users(t, b)) \in Nat
  BY Zenon DEF Users, Counting

LEMMA OneMore ==
  ASSUME Counting, NEW S, IsFiniteSet(S), NEW x, x \notin S
  PROVE  Cardinality(S \cup {x}) = Cardinality(S) + 1
  BY Zenon DEF Counting

LEMMA OneLess ==
  ASSUME Counting, NEW S, IsFiniteSet(S), NEW x, x \in S
  PROVE  Cardinality(S \ {x}) = Cardinality(S) - 1
  BY Zenon DEF Counting

\* A block that a slot refers to has references.
LEMMA UsedIsCounted ==
  ASSUME Counting, NEW t, NEW b, NEW x \in Slots, t[x].refs_ = b
  PROVE  Cardinality(Users(t, b)) # 0
<1>1. Users(t, b) # {}
  BY Zenon DEF Users
<1> QED
  BY <1>1, UsersFinite, Zenon DEF Counting

\* The bytes of a slice.
LEMMA DataOK ==
  ASSUME NEW s \in SliceRecords, NEW mem \in [Blocks -> Seq(Nat)], Fits(s, mem)
  PROVE  DataIn(s, mem) \in Seq(Nat) /\ Len(DataIn(s, mem)) = s.length
<1>1. CASE s.refs_ = nullptr
  BY <1>1, Zenon DEF DataIn, Fits, SliceRecords
<1>2. CASE s.refs_ # nullptr
  <2>1. PICK m \in Seq(Nat) : m = mem[s.refs_]
    BY <1>2, Zenon DEF SliceRecords
  <2>2. PICK f \in Nat \ {0}, l \in Nat : f = s.first /\ l = s.length
    BY Zenon DEF SliceRecords
  <2>3. f + l <= Len(m) + 1 /\ DataIn(s, mem) = SubSeq(m, f, f + l - 1)
    BY <1>2, <2>1, <2>2, ZenonT(40) DEF Fits, DataIn
  <2>4. f \in 1 .. Len(m) + 1 /\ f + l - 1 \in 0 .. Len(m) /\ f <= f + l - 1 + 1
    BY <2>3
  <2>5. /\ SubSeq(m, f, f + l - 1) \in Seq(Nat)
        /\ Len(SubSeq(m, f, f + l - 1)) = f + l - 1 - f + 1
    BY <2>4, PartOfSeq
  <2>6. Len(SubSeq(m, f, f + l - 1)) = l
    BY <2>5
  <2> QED
    BY <2>2, <2>3, <2>5, <2>6, Zenon
<1> QED
  BY <1>1, <1>2, Zenon

\* Every step replaces the slices by new ones, the counts by exact counts of
\* them, and the memory by mem without what is free.  The slices then see what
\* they see in mem.
LEMMA Exchanged ==
  ASSUME Counting, NEW new \in [Slots -> SliceRecords], NEW counts \in [Blocks -> Nat],
         NEW mem \in [Blocks -> Seq(Nat)],
         \A b \in Blocks : counts[b] = Cardinality(Users(new, b)),
         \A y \in Slots : Fits(new[y], mem),
         slice' = new, refs' = counts, memory' = Freed(counts, mem)
  PROVE  SlicesInv' /\ \A y \in Slots : data(slice[y])' = DataIn(new[y], mem)
<1>1. \A y \in Slots : new[y].refs_ # nullptr =>
        new[y].refs_ \in Blocks /\ memory'[new[y].refs_] = mem[new[y].refs_]
  <2> SUFFICES ASSUME NEW y \in Slots, new[y].refs_ # nullptr
               PROVE  new[y].refs_ \in Blocks /\ memory'[new[y].refs_] = mem[new[y].refs_]
    BY Zenon
  <2>1. new[y].refs_ \in Blocks
    BY Zenon DEF SliceRecords
  <2>2. counts[new[y].refs_] # 0
    BY <2>1, UsedIsCounted, Zenon
  <2> QED
    BY <2>1, <2>2, Zenon DEF Freed
<1>2. memory' \in [Blocks -> Seq(Nat)]
  BY DEF Freed
<1>3. SlicesTypeOK'
  BY <1>2, Zenon DEF SlicesTypeOK
<1>4. \A y \in Slots : Fits(slice[y], memory)'
  BY <1>1, ZenonT(40) DEF Fits
<1>5. \A y \in Slots : data(slice[y])' = DataIn(new[y], mem)
  BY <1>1, Zenon DEF data, DataIn
<1> QED
  BY <1>3, <1>4, <1>5, Zenon DEF SlicesInv

\* The same for the steps that change slot x only and leave the used memory
\* alone: every other slice keeps its bytes.
LEMMA PutStep ==
  ASSUME Counting, SlicesInv, NEW x \in Slots, NEW s \in SliceRecords, NEW counts \in [Blocks -> Nat],
         NEW mem \in [Blocks -> Seq(Nat)], Put(x, s, counts, mem),
         \A b \in Blocks : counts[b] = Cardinality(Users([slice EXCEPT ![x] = s], b)),
         \A b \in Blocks : refs[b] # 0 => mem[b] = memory[b],
         Fits(s, mem)
  PROVE  /\ SlicesInv'
         /\ data(slice[x])' = DataIn(s, mem)
         /\ \A y \in Slots : y # x => data(slice[y])' = data(slice[y])
<1> DEFINE new == [slice EXCEPT ![x] = s]
<1>1. new \in [Slots -> SliceRecords] /\ new[x] = s /\ \A y \in Slots : y # x => new[y] = slice[y]
  BY Zenon DEF SlicesInv, SlicesTypeOK
<1>2. \A y \in Slots : slice[y].refs_ # nullptr => mem[slice[y].refs_] = memory[slice[y].refs_]
  <2> SUFFICES ASSUME NEW y \in Slots, slice[y].refs_ # nullptr
               PROVE  mem[slice[y].refs_] = memory[slice[y].refs_]
    BY Zenon
  <2>1. slice[y].refs_ \in Blocks
    BY Zenon DEF SlicesInv, SlicesTypeOK, SliceRecords
  <2>2. refs[slice[y].refs_] # 0
    BY <2>1, UsedIsCounted DEF SlicesInv
  <2> QED
    BY <2>1, <2>2, Zenon
<1>3. \A y \in Slots : Fits(new[y], mem)
  BY <1>1, <1>2, ZenonT(40) DEF Fits, SlicesInv
<1>4. slice' = new /\ refs' = counts /\ memory' = Freed(counts, mem)
  BY Zenon DEF Put
<1>5. \A y \in Slots : y # x => DataIn(new[y], mem) = data(slice[y])
  BY <1>1, <1>2, ZenonT(40) DEF DataIn, data
<1>6. \A b \in Blocks : counts[b] = Cardinality(Users(new, b))
  BY ZenonT(40)
<1> HIDE DEF new
<1>7. SlicesInv' /\ \A y \in Slots : data(slice[y])' = DataIn(new[y], mem)
  BY <1>1, <1>3, <1>4, <1>6, Exchanged, ZenonT(40)
<1> QED
  BY <1>1, <1>5, <1>7, Zenon

\* Replacing the slice of one slot: the counts after AddRef for the new block
\* and DecRef for the old one are exact.
LEMMA CountsExact ==
  ASSUME Counting, SlicesInv, NEW x \in Slots, NEW s \in SliceRecords, NEW counts,
         counts = DecRef(AddRef(refs, s.refs_), slice[x].refs_)
  PROVE  /\ counts \in [Blocks -> Nat]
         /\ \A b \in Blocks : counts[b] = Cardinality(Users([slice EXCEPT ![x] = s], b))
<1> DEFINE new == [slice EXCEPT ![x] = s]
           more(b) == IF s.refs_ = b THEN 1 ELSE 0
           less(b) == IF slice[x].refs_ = b THEN 1 ELSE 0
<1>1. new[x] = s /\ \A y \in Slots : y # x => new[y] = slice[y]
  BY Zenon DEF SlicesInv, SlicesTypeOK
<1>2. /\ refs \in [Blocks -> Nat]
      /\ s.refs_ \in Blocks \cup {nullptr} /\ slice[x].refs_ \in Blocks \cup {nullptr}
      /\ \A b \in Blocks : b # nullptr
  BY SlicesAssumption, Zenon DEF SlicesInv, SlicesTypeOK, SliceRecords
<1>3. /\ DOMAIN counts = Blocks /\ counts = [b \in DOMAIN counts |-> counts[b]]
      /\ \A b \in Blocks : counts[b] = refs[b] + more(b) - less(b)
  <2>1. PICK up : up = AddRef(refs, s.refs_)
    BY Zenon
  <2>2. up \in [Blocks -> Nat] /\ \A b \in Blocks : up[b] = refs[b] + more(b)
    BY <1>2, <2>1, SMTT(30) DEF AddRef
  <2>3. counts = DecRef(up, slice[x].refs_)
    BY <2>1, Zenon
  <2>4. CASE slice[x].refs_ = nullptr
    <3>1. counts = up /\ \A b \in Blocks : slice[x].refs_ # b
      BY <1>2, <2>3, <2>4, Zenon DEF DecRef
    <3> QED
      BY <1>2, <2>2, <3>1
  <2>5. CASE slice[x].refs_ # nullptr
    <3>1. PICK c \in Blocks : c = slice[x].refs_ /\ counts = [up EXCEPT ![c] = @ - 1]
      BY <1>2, <2>3, <2>5, ZenonT(40) DEF DecRef
    <3>2. \A b \in Blocks : counts[b] = up[b] - less(b)
      BY <2>2, <3>1
    <3>3. DOMAIN counts = Blocks /\ counts = [b \in DOMAIN counts |-> counts[b]]
      BY <2>2, <3>1, ZenonT(40)
    <3>4. ASSUME NEW b \in Blocks PROVE counts[b] = refs[b] + more(b) - less(b)
      <4>1. up[b] = refs[b] + more(b) /\ counts[b] = up[b] - less(b)
        BY <2>2, <3>2, Zenon
      <4>2. refs[b] \in Nat /\ more(b) \in Nat /\ less(b) \in Nat
        BY <1>2, Zenon
      <4> HIDE DEF more, less
      <4> QED
        BY <4>1, <4>2
    <3> QED
      BY <3>3, <3>4, Zenon
  <2> QED
    BY <2>4, <2>5, Zenon
<1>4. ASSUME NEW b \in Blocks
      PROVE  Cardinality(Users(new, b)) = refs[b] + more(b) - less(b)
  <2>1. refs[b] = Cardinality(Users(slice, b))
    BY Zenon DEF SlicesInv
  <2>2. IsFiniteSet(Users(slice, b)) /\ Cardinality(Users(slice, b)) \in Nat
    BY UsersFinite, Zenon
  <2>3. x \in Users(slice, b) <=> slice[x].refs_ = b
    BY Zenon DEF Users
  <2>4. CASE s.refs_ = b /\ slice[x].refs_ # b
    <3>1. Users(new, b) = Users(slice, b) \cup {x}
      BY <1>1, <2>4, Zenon DEF Users
    <3>2. Cardinality(Users(new, b)) = Cardinality(Users(slice, b)) + 1
      BY <2>2, <2>3, <2>4, <3>1, OneMore, ZenonT(40)
    <3> QED
      BY <2>1, <2>2, <2>4, <3>2
  <2>5. CASE s.refs_ # b /\ slice[x].refs_ = b
    <3>1. Users(new, b) = Users(slice, b) \ {x}
      BY <1>1, <2>5, Zenon DEF Users
    <3>2. Cardinality(Users(new, b)) = Cardinality(Users(slice, b)) - 1
      BY <2>2, <2>3, <2>5, <3>1, OneLess, ZenonT(40)
    <3> QED
      BY <2>1, <2>2, <2>5, <3>2
  <2>6. CASE s.refs_ = b <=> slice[x].refs_ = b
    <3>1. Users(new, b) = Users(slice, b)
      BY <1>1, <2>6, Zenon DEF Users
    <3> QED
      BY <2>1, <2>2, <2>6, <3>1
  <2> QED
    BY <2>4, <2>5, <2>6, Zenon
<1>5. \A b \in Blocks : Cardinality(Users(new, b)) \in Nat
  BY UsersFinite, Zenon
<1> HIDE DEF new, more, less
<1>6. \A b \in Blocks : counts[b] = Cardinality(Users(new, b))
  BY <1>3, <1>4, Zenon
<1>7. counts \in [Blocks -> Nat]
  BY <1>3, <1>5, <1>6, Zenon
<1> QED
  BY <1>6, <1>7, ZenonT(40) DEF new

LEMMA InlinedOK ==
  ASSUME NEW bytes \in Seq(Nat), NEW mem
  PROVE  /\ Inlined(bytes) \in SliceRecords /\ Inlined(bytes).refs_ = nullptr
         /\ Fits(Inlined(bytes), mem) /\ DataIn(Inlined(bytes), mem) = bytes
<1>1. Len(bytes) \in Nat
  OBVIOUS
<1>2. PICK s : s = Inlined(bytes)
  BY Zenon
<1>3. s.refs_ = nullptr /\ s.bytes = bytes /\ s.length = Len(bytes)
  BY <1>2, Zenon DEF Inlined
<1>4. s \in SliceRecords
  BY <1>1, <1>2 DEF Inlined, SliceRecords
<1>5. Fits(s, mem) /\ DataIn(s, mem) = bytes
  BY <1>3, Zenon DEF Fits, DataIn
<1> QED
  BY <1>2, <1>3, <1>4, <1>5, Zenon

\* What the slots show, as SliceValues sees it.
Shown == [x \in Slots |-> data(slice[x])]

\* Slot x shows v now, and every other slot what it showed.
Shows(x, v) ==
  data(slice[x])' = v /\ \A y \in Slots : y # x => data(slice[y])' = data(slice[y])

\* Copying: the assignment, and operator+ if the left slice is empty.
LEMMA CopyStep ==
  ASSUME Counting, SlicesInv, NEW x \in Slots, NEW y \in Slots,
         Put(x, slice[y], DecRef(AddRef(refs, slice[y].refs_), slice[x].refs_), memory)
  PROVE  SlicesInv' /\ Shows(x, data(slice[y]))
<1>1. PICK counts : counts = DecRef(AddRef(refs, slice[y].refs_), slice[x].refs_)
  BY Zenon
<1>2. /\ slice[y] \in SliceRecords /\ Fits(slice[y], memory)
      /\ memory \in [Blocks -> Seq(Nat)]
  BY Zenon DEF SlicesInv, SlicesTypeOK
<1>3. DataIn(slice[y], memory) = data(slice[y])
  BY Zenon DEF DataIn, data
<1>4. /\ counts \in [Blocks -> Nat]
      /\ \A b \in Blocks : counts[b] = Cardinality(Users([slice EXCEPT ![x] = slice[y]], b))
  BY <1>1, <1>2, CountsExact
<1>5. Put(x, slice[y], counts, memory)
  BY <1>1, Zenon
<1> QED
  BY <1>2, <1>3, <1>4, <1>5, PutStep, ZenonT(40) DEF Shows

\* A slice of given bytes, inlined or in a block of its own.
LEMMA MakeStep ==
  ASSUME Counting, SlicesInv, NEW x \in Slots, NEW bytes \in Seq(Nat), Make(x, bytes)
  PROVE  SlicesInv' /\ Shows(x, bytes)
<1>1. memory \in [Blocks -> Seq(Nat)] /\ Len(bytes) \in Nat
  BY DEF SlicesInv, SlicesTypeOK
<1>2. CASE Len(bytes) <= SLICE_INLINED_SIZE
  <2>1. PICK counts : counts = DecRef(refs, slice[x].refs_)
    BY Zenon
  <2>2. counts = DecRef(AddRef(refs, Inlined(bytes).refs_), slice[x].refs_)
    BY <2>1, InlinedOK, Zenon DEF AddRef
  <2>3. Inlined(bytes) \in SliceRecords
    BY InlinedOK, Zenon
  <2>4. /\ counts \in [Blocks -> Nat]
        /\ \A b \in Blocks : counts[b] = Cardinality(Users([slice EXCEPT ![x] = Inlined(bytes)], b))
    BY <2>2, <2>3, CountsExact
  <2>5. Put(x, Inlined(bytes), counts, memory)
    BY <1>2, <2>1, Zenon DEF Make
  <2>6. Fits(Inlined(bytes), memory) /\ DataIn(Inlined(bytes), memory) = bytes
    BY InlinedOK, Zenon
  <2> QED
    BY <1>1, <2>3, <2>4, <2>5, <2>6, PutStep, ZenonT(40) DEF Shows
<1>3. CASE ~(Len(bytes) <= SLICE_INLINED_SIZE)
  <2>1. PICK b \in Blocks :
          /\ refs[b] = 0
          /\ Put(x, Refcounted(b, 1, Len(bytes)),
                 [DecRef(refs, slice[x].refs_) EXCEPT ![b] = 1], [memory EXCEPT ![b] = bytes])
    BY <1>3, ZenonT(40) DEF Make
  <2>2. PICK s : s = Refcounted(b, 1, Len(bytes))
    BY Zenon
  <2>3. PICK counts : counts = [DecRef(refs, slice[x].refs_) EXCEPT ![b] = 1]
    BY ZenonT(40)
  <2>4. PICK mem : mem = [memory EXCEPT ![b] = bytes]
    BY ZenonT(40)
  <2>5. /\ s \in SliceRecords /\ s.refs_ = b /\ s.first = 1 /\ s.length = Len(bytes)
        /\ b # nullptr
    BY <1>1, <2>2, SlicesAssumption, SMTT(30) DEF Refcounted, SliceRecords
  <2>6. /\ mem \in [Blocks -> Seq(Nat)] /\ mem[b] = bytes
        /\ \A c \in Blocks : c # b => mem[c] = memory[c]
    BY <1>1, <2>4, Zenon
  <2>7. slice[x].refs_ # b
    BY <2>1, UsedIsCounted, Zenon DEF SlicesInv
  <2>8. counts = DecRef(AddRef(refs, s.refs_), slice[x].refs_)
    <3>1. refs \in [Blocks -> Nat] /\ slice[x].refs_ \in Blocks \cup {nullptr}
      BY Zenon DEF SlicesInv, SlicesTypeOK, SliceRecords
    <3>2. CASE slice[x].refs_ = nullptr
      <4>1. counts = [refs EXCEPT ![b] = 1]
        BY <2>3, <3>2, Zenon DEF DecRef
      <4>2. DecRef(AddRef(refs, s.refs_), slice[x].refs_) = [refs EXCEPT ![b] = refs[b] + 1]
        BY <2>5, <3>2, Zenon DEF AddRef, DecRef
      <4>3. refs[b] + 1 = 1
        BY <2>1
      <4> QED
        BY <4>1, <4>2, <4>3, ZenonT(40)
    <3>3. CASE slice[x].refs_ # nullptr
      <4>1. PICK c \in Blocks : c = slice[x].refs_ /\ c # b /\ c # nullptr
        BY <2>7, <3>1, <3>3, Zenon
      <4>2. /\ counts = [[refs EXCEPT ![c] = refs[c] - 1] EXCEPT ![b] = 1]
            /\ DecRef(AddRef(refs, s.refs_), slice[x].refs_) =
                 [[refs EXCEPT ![b] = refs[b] + 1] EXCEPT ![c] = refs[c] - 1]
        BY <2>3, <2>5, <3>1, <4>1, Zenon DEF AddRef, DecRef
      <4>3. refs[b] + 1 = 1
        BY <2>1
      <4> QED
        BY <3>1, <4>1, <4>2, <4>3, ExceptsCommute, ZenonT(40)
    <3> QED
      BY <3>2, <3>3, Zenon
  <2>9. /\ counts \in [Blocks -> Nat]
        /\ \A c \in Blocks : counts[c] = Cardinality(Users([slice EXCEPT ![x] = s], c))
    BY <2>5, <2>8, CountsExact
  <2>10. Fits(s, mem)
    BY <1>1, <2>5, <2>6 DEF Fits
  <2>11. DataIn(s, mem) = bytes
    <3>1. DataIn(s, mem) = SubSeq(bytes, 1, Len(bytes))
      BY <1>1, <2>5, <2>6 DEF DataIn
    <3> QED
      BY <3>1, WholeSeq, Zenon
  <2>12. Put(x, s, counts, mem)
    BY <2>1, <2>2, <2>3, <2>4, Zenon
  <2> QED
    BY <2>1, <2>5, <2>6, <2>9, <2>10, <2>11, <2>12, PutStep, ZenonT(40) DEF Shows
<1> QED
  BY <1>2, <1>3, Zenon

\* Moving.
LEMMA MoveStep ==
  ASSUME Counting, SlicesInv, NEW x \in Slots, NEW y \in Slots, Move(x, y)
  PROVE  /\ SlicesInv'
         /\ data(slice[x])' = data(slice[y]) /\ data(slice[y])' = <<>>
         /\ \A z \in Slots : z # x /\ z # y => data(slice[z])' = data(slice[z])
<1>1. PICK new : new = [slice EXCEPT ![x] = slice[y], ![y] = Empty]
  BY ZenonT(40)
<1>2. PICK counts : counts = DecRef(refs, slice[x].refs_)
  BY Zenon
<1>3. Empty \in SliceRecords /\ Empty.refs_ = nullptr /\ Fits(Empty, memory)
      /\ DataIn(Empty, memory) = <<>>
  <2>1. <<>> \in Seq(Nat)
    OBVIOUS
  <2> QED
    BY <2>1, InlinedOK, Zenon DEF Empty
<1>4. /\ slice \in [Slots -> SliceRecords] /\ refs \in [Blocks -> Nat]
      /\ memory \in [Blocks -> Seq(Nat)] /\ x # y
  BY Zenon DEF SlicesInv, SlicesTypeOK, Move
<1>5. /\ new \in [Slots -> SliceRecords] /\ new[x] = slice[y] /\ new[y] = Empty
      /\ \A z \in Slots : z # x /\ z # y => new[z] = slice[z]
  BY <1>1, <1>3, <1>4, Zenon
<1>6. ASSUME NEW b \in Blocks
      PROVE  counts[b] = Cardinality(Users(new, b))
  <2>1. /\ slice[x].refs_ = b => counts[b] = refs[b] - 1
        /\ slice[x].refs_ # b => counts[b] = refs[b]
        /\ b # nullptr
    BY <1>2, <1>4, SlicesAssumption, Zenon DEF DecRef
  <2>2. /\ refs[b] = Cardinality(Users(slice, b)) /\ IsFiniteSet(Users(slice, b))
        /\ Cardinality(Users(slice, b)) \in Nat
    BY UsersFinite, Zenon DEF SlicesInv
  <2>3. /\ x \in Users(slice, b) <=> slice[x].refs_ = b
        /\ y \in Users(slice, b) <=> slice[y].refs_ = b
    BY Zenon DEF Users
  <2>4. CASE slice[y].refs_ = b /\ slice[x].refs_ = b
    <3>1. Users(new, b) = Users(slice, b) \ {y}
      BY <1>3, <1>4, <1>5, <2>1, <2>4, ZenonT(40) DEF Users
    <3>2. Cardinality(Users(new, b)) = Cardinality(Users(slice, b)) - 1
      BY <2>2, <2>3, <2>4, <3>1, OneLess, ZenonT(40)
    <3> QED
      BY <2>1, <2>2, <2>4, <3>2, Zenon
  <2>5. CASE slice[y].refs_ # b /\ slice[x].refs_ = b
    <3>1. Users(new, b) = Users(slice, b) \ {x}
      BY <1>3, <1>4, <1>5, <2>1, <2>5, ZenonT(40) DEF Users
    <3>2. Cardinality(Users(new, b)) = Cardinality(Users(slice, b)) - 1
      BY <2>2, <2>3, <2>5, <3>1, OneLess, ZenonT(40)
    <3> QED
      BY <2>1, <2>2, <2>5, <3>2, Zenon
  <2>6. CASE slice[y].refs_ = b /\ slice[x].refs_ # b
    <3>1. Users(new, b) = (Users(slice, b) \ {y}) \cup {x}
      BY <1>3, <1>4, <1>5, <2>1, <2>6, ZenonT(40) DEF Users
    <3>2. /\ IsFiniteSet(Users(slice, b) \ {y})
          /\ Cardinality(Users(slice, b) \ {y}) = Cardinality(Users(slice, b)) - 1
      BY <2>2, <2>3, <2>6, Zenon DEF Counting, Users
    <3>3. x \notin Users(slice, b) \ {y}
      BY <2>3, <2>6, Zenon
    <3>4. Cardinality(Users(new, b)) = Cardinality(Users(slice, b) \ {y}) + 1
      BY <3>1, <3>2, <3>3, OneMore, ZenonT(40)
    <3>5. Cardinality(Users(slice, b)) - 1 + 1 = Cardinality(Users(slice, b))
      BY <2>2
    <3> QED
      BY <2>1, <2>2, <2>6, <3>2, <3>4, <3>5, Zenon
  <2>7. CASE slice[y].refs_ # b /\ slice[x].refs_ # b
    <3>1. Users(new, b) = Users(slice, b)
      BY <1>3, <1>4, <1>5, <2>1, <2>7, ZenonT(40) DEF Users
    <3> QED
      BY <2>1, <2>2, <2>7, <3>1, Zenon
  <2> QED
    BY <2>4, <2>5, <2>6, <2>7, Zenon
<1>7. counts \in [Blocks -> Nat]
  <2>1. DOMAIN counts = Blocks /\ counts = [b \in DOMAIN counts |-> counts[b]]
    BY <1>2, <1>4, ZenonT(40) DEF DecRef
  <2>2. \A b \in Blocks : Cardinality(Users(new, b)) \in Nat
    BY UsersFinite, Zenon
  <2> QED
    BY <1>6, <2>1, <2>2, Zenon
<1>8. \A z \in Slots : Fits(new[z], memory)
  BY <1>3, <1>5, Zenon DEF SlicesInv
<1>9. slice' = new /\ refs' = counts /\ memory' = Freed(counts, memory)
  BY <1>1, <1>2, Zenon DEF Move
<1>10. SlicesInv' /\ \A z \in Slots : data(slice[z])' = DataIn(new[z], memory)
  BY <1>4, <1>5, <1>6, <1>7, <1>8, <1>9, Exchanged, ZenonT(40)
<1>11. \A z \in Slots : DataIn(slice[z], memory) = data(slice[z])
  BY Zenon DEF DataIn, data
<1> QED
  BY <1>3, <1>4, <1>5, <1>10, <1>11, Zenon

\* Clearing.
LEMMA ClearStep ==
  ASSUME Counting, SlicesInv, NEW x \in Slots, clear(x)
  PROVE  SlicesInv' /\ Shows(x, <<>>)
<1>1. <<>> \in Seq(Nat) /\ Len(<<>>) = 0
  OBVIOUS
<1>2. Make(x, <<>>)
  BY <1>1, SlicesAssumption DEF clear, Empty, Make
<1> QED
  BY <1>1, <1>2, MakeStep, ZenonT(40)

\* Replacing a slice by a part of it, which keeps the counts.
LEMMA CutStep ==
  ASSUME Counting, SlicesInv, NEW x \in Slots, NEW s \in SliceRecords, Put(x, s, refs, memory),
         s.refs_ = slice[x].refs_, Fits(s, memory)
  PROVE  SlicesInv' /\ Shows(x, DataIn(s, memory))
<1>1. /\ refs \in [Blocks -> Nat] /\ memory \in [Blocks -> Seq(Nat)]
      /\ slice \in [Slots -> SliceRecords]
  BY Zenon DEF SlicesInv, SlicesTypeOK
<1>2. \A b \in Blocks : Users([slice EXCEPT ![x] = s], b) = Users(slice, b)
  BY <1>1, Zenon DEF Users
<1>3. \A b \in Blocks : refs[b] = Cardinality(Users([slice EXCEPT ![x] = s], b))
  BY <1>2, ZenonT(40) DEF SlicesInv
<1> QED
  BY <1>1, <1>3, PutStep, ZenonT(40) DEF Shows

\* The bytes that RemoveHead and RemoveTail leave.
LEMMA RemoveStep ==
  ASSUME Counting, SlicesInv, NEW x \in Slots, NEW n \in 1 .. slice[x].length
  PROVE  /\ data(slice[x]) \in Seq(Nat) /\ Len(data(slice[x])) = slice[x].length
         /\ RemoveHead(x, n) =>
              SlicesInv' /\ Shows(x, SubSeq(data(slice[x]), n + 1, slice[x].length))
         /\ RemoveTail(x, n) =>
              SlicesInv' /\ Shows(x, SubSeq(data(slice[x]), 1, slice[x].length - n))
<1>1. PICK s \in SliceRecords : s = slice[x]
  BY Zenon DEF SlicesInv, SlicesTypeOK
<1>2. PICK f \in Nat \ {0}, l \in Nat : s.first = f /\ s.length = l
  BY Zenon DEF SliceRecords
<1>3. n \in 1 .. l
  BY <1>1, <1>2, Zenon
<1>4. Fits(s, memory) /\ memory \in [Blocks -> Seq(Nat)]
  BY <1>1, Zenon DEF SlicesInv, SlicesTypeOK
<1>5. data(slice[x]) = DataIn(s, memory)
  BY <1>1, Zenon DEF data, DataIn
<1>6. data(slice[x]) \in Seq(Nat) /\ Len(data(slice[x])) = slice[x].length
  BY <1>1, <1>4, <1>5, DataOK, Zenon
<1>7. CASE s.refs_ = nullptr
  <2>1. PICK bytes \in Seq(Nat) : bytes = s.bytes /\ Len(bytes) = l /\ data(slice[x]) = bytes
    BY <1>2, <1>4, <1>5, <1>7, Zenon DEF SliceRecords, Fits, DataIn
  <2>2. SubSeq(bytes, n + 1, l) \in Seq(Nat) /\ SubSeq(bytes, 1, l - n) \in Seq(Nat)
    BY <1>3, <2>1
  <2>3. ASSUME RemoveHead(x, n)
        PROVE  SlicesInv' /\ Shows(x, SubSeq(bytes, n + 1, l))
    <3>1. Put(x, Inlined(SubSeq(bytes, n + 1, l)), refs, memory)
      BY <1>1, <1>2, <1>7, <2>1, <2>3, Zenon DEF RemoveHead
    <3> QED
      BY <1>1, <1>7, <2>2, <3>1, InlinedOK, CutStep, ZenonT(40)
  <2>4. ASSUME RemoveTail(x, n)
        PROVE  SlicesInv' /\ Shows(x, SubSeq(bytes, 1, l - n))
    <3>1. Put(x, Inlined(SubSeq(bytes, 1, l - n)), refs, memory)
      BY <1>1, <1>2, <1>7, <2>1, <2>4, Zenon DEF RemoveTail
    <3> QED
      BY <1>1, <1>7, <2>2, <3>1, InlinedOK, CutStep, ZenonT(40)
  <2> QED
    BY <1>1, <1>2, <1>6, <2>1, <2>3, <2>4, Zenon
<1>8. CASE s.refs_ # nullptr
  <2>1. PICK m \in Seq(Nat) : m = memory[s.refs_] /\ f + l <= Len(m) + 1 /\ Len(m) \in Nat
    BY <1>2, <1>4, <1>8 DEF SliceRecords, Fits
  <2>2. data(slice[x]) = SubSeq(m, f, f + l - 1)
    BY <1>2, <1>5, <1>8, <2>1, Zenon DEF DataIn
  <2>3. SubSeq(m, f + n, f + n + (l - n) - 1) = SubSeq(SubSeq(m, f, f + l - 1), n + 1, l)
    <3>1. /\ f \in 1 .. Len(m) + 1 /\ f + l - 1 \in 0 .. Len(m) /\ f <= f + l - 1 + 1
          /\ n + 1 \in 1 .. (f + l - 1) - f + 2 /\ l \in 0 .. (f + l - 1) - f + 1
          /\ n + 1 <= l + 1
      BY <1>3, <2>1
    <3>2. SubSeq(SubSeq(m, f, f + l - 1), n + 1, l) = SubSeq(m, f + (n + 1) - 1, f + l - 1)
      BY <3>1, PartOfPart
    <3>3. f + (n + 1) - 1 = f + n /\ f + n + (l - n) - 1 = f + l - 1
      BY <1>3
    <3> QED
      BY <3>2, <3>3, Zenon
  <2>4. SubSeq(m, f, f + (l - n) - 1) = SubSeq(SubSeq(m, f, f + l - 1), 1, l - n)
    <3>1. /\ f \in 1 .. Len(m) + 1 /\ f + l - 1 \in 0 .. Len(m) /\ f <= f + l - 1 + 1
          /\ 1 \in 1 .. (f + l - 1) - f + 2 /\ l - n \in 0 .. (f + l - 1) - f + 1
          /\ 1 <= (l - n) + 1
      BY <1>3, <2>1
    <3>2. SubSeq(SubSeq(m, f, f + l - 1), 1, l - n) = SubSeq(m, f + 1 - 1, f + (l - n) - 1)
      BY <3>1, PartOfPart
    <3>3. f + 1 - 1 = f
      BY SMTT(30)
    <3> QED
      BY <3>2, <3>3, Zenon
  <2>5. ASSUME RemoveHead(x, n)
        PROVE  SlicesInv' /\ Shows(x, SubSeq(data(slice[x]), n + 1, l))
    <3>1. PICK r : r = [s EXCEPT !.length = l - n, !.first = f + n]
      BY Zenon
    <3>2. /\ r \in SliceRecords /\ r.refs_ = s.refs_
          /\ r.first = f + n /\ r.length = l - n
      <4>1. l - n \in Nat /\ f + n \in Nat \ {0}
        BY <1>3
      <4> QED
        BY <3>1, <4>1, ZenonT(40) DEF SliceRecords
    <3>3. Put(x, r, refs, memory)
      BY <1>1, <1>2, <1>8, <2>5, <3>1, Zenon DEF RemoveHead
    <3>4. Fits(r, memory)
      BY <1>3, <1>8, <2>1, <3>2, SMTT(30) DEF Fits
    <3>5. DataIn(r, memory) = SubSeq(data(slice[x]), n + 1, l)
      BY <1>8, <2>1, <2>2, <2>3, <3>2, Zenon DEF DataIn
    <3> QED
      BY <1>1, <3>2, <3>3, <3>4, <3>5, CutStep, ZenonT(40)
  <2>6. ASSUME RemoveTail(x, n)
        PROVE  SlicesInv' /\ Shows(x, SubSeq(data(slice[x]), 1, l - n))
    <3>1. PICK r : r = [s EXCEPT !.length = l - n]
      BY ZenonT(40)
    <3>2. /\ r \in SliceRecords /\ r.refs_ = s.refs_
          /\ r.first = f /\ r.length = l - n
      <4>1. l - n \in Nat
        BY <1>3
      <4> QED
        BY <1>2, <3>1, <4>1, ZenonT(40) DEF SliceRecords
    <3>3. Put(x, r, refs, memory)
      BY <1>1, <1>2, <1>8, <2>6, <3>1, Zenon DEF RemoveTail
    <3>4. Fits(r, memory)
      <4>1. f + (l - n) <= Len(m) + 1
        BY <1>3, <2>1, SMTT(30)
      <4> QED
        BY <1>8, <2>1, <3>2, <4>1, Zenon DEF Fits
    <3>5. DataIn(r, memory) = SubSeq(data(slice[x]), 1, l - n)
      BY <1>8, <2>1, <2>2, <2>4, <3>2, Zenon DEF DataIn
    <3> QED
      BY <1>1, <3>2, <3>3, <3>4, <3>5, CutStep, ZenonT(40)
  <2> QED
    BY <1>1, <1>2, <1>6, <2>5, <2>6, Zenon
<1> QED
  BY <1>7, <1>8, Zenon

\* RemoveHead and RemoveTail are the operations of that name of SliceValues.
LEMMA CutsStep ==
  ASSUME Counting, SlicesInv, NEW x \in Slots, NEW n \in 1 .. slice[x].length
  PROVE  /\ RemoveHead(x, n) => Values!RemoveHead(x)
         /\ RemoveTail(x, n) => Values!RemoveTail(x)
<1>1. Shown[x] = data(slice[x]) /\ Len(Shown[x]) = slice[x].length
  BY RemoveStep, Zenon DEF Shown
<1>2. ASSUME NEW v, Shows(x, v)
      PROVE  Shown' = [Shown EXCEPT ![x] = v]
  BY <1>2, ZenonT(40) DEF Shows, Shown
<1>3. ASSUME RemoveHead(x, n)
      PROVE  Values!RemoveHead(x)
  <2>1. Shows(x, SubSeq(data(slice[x]), n + 1, slice[x].length))
    BY <1>3, RemoveStep, Zenon
  <2>2. Shown' = [Shown EXCEPT ![x] = SubSeq(Shown[x], n + 1, Len(Shown[x]))]
    BY <1>1, <1>2, <2>1, ZenonT(40)
  <2>3. n \in 1 .. Len(Shown[x])
    BY <1>1, Zenon
  <2> QED
    BY <2>2, <2>3, ZenonT(40) DEF Values!RemoveHead, Shown
<1>4. ASSUME RemoveTail(x, n)
      PROVE  Values!RemoveTail(x)
  <2>1. Shows(x, SubSeq(data(slice[x]), 1, slice[x].length - n))
    BY <1>4, RemoveStep, Zenon
  <2>2. Shown' = [Shown EXCEPT ![x] = SubSeq(Shown[x], 1, Len(Shown[x]) - n)]
    BY <1>1, <1>2, <2>1, ZenonT(40)
  <2>3. n \in 1 .. Len(Shown[x])
    BY <1>1
  <2> QED
    BY <2>2, <2>3, ZenonT(40) DEF Values!RemoveTail, Shown
<1> QED
  BY <1>3, <1>4, Zenon

\* Appending: nothing to append to, nothing to append, or a slice of its own.
LEMMA ConcatenateStep ==
  ASSUME Counting, SlicesInv, NEW x \in Slots, NEW y \in Slots, Concatenate(x, y)
  PROVE  /\ SlicesInv'
         /\ \/ UNCHANGED sliceVars
            \/ Shows(x, data(slice[y]))
            \/ Shows(x, data(slice[x]) \o data(slice[y]))
<1>1. \A z \in Slots : data(slice[z]) \in Seq(Nat)
  <2> SUFFICES ASSUME NEW z \in Slots PROVE data(slice[z]) \in Seq(Nat)
    BY Zenon
  <2>1. /\ slice[z] \in SliceRecords /\ memory \in [Blocks -> Seq(Nat)]
        /\ Fits(slice[z], memory)
    BY Zenon DEF SlicesInv, SlicesTypeOK
  <2>2. DataIn(slice[z], memory) = data(slice[z])
    BY Zenon DEF DataIn, data
  <2> QED
    BY <2>1, <2>2, DataOK, Zenon
<1>2. PICK a \in Seq(Nat), b \in Seq(Nat) : a = data(slice[x]) /\ b = data(slice[y])
  BY <1>1, Zenon
<1>3. CASE a = <<>>
  BY <1>2, <1>3, CopyStep, Zenon DEF Concatenate
<1>4. CASE a # <<>> /\ b = <<>>
  <2>1. UNCHANGED sliceVars
    BY <1>2, <1>4, Zenon DEF Concatenate
  <2> QED
    BY <2>1, Zenon DEF sliceVars, SlicesInv, SlicesTypeOK
<1>5. CASE a # <<>> /\ b # <<>>
  <2>1. Make(x, a \o b) /\ a \o b \in Seq(Nat)
    BY <1>2, <1>5 DEF Concatenate
  <2> QED
    BY <1>2, <2>1, MakeStep, ZenonT(40)
<1> QED
  BY <1>3, <1>4, <1>5, Zenon

\* Every step keeps the invariant and is one of SliceValues, or changes nothing
\* that a slot shows.
LEMMA SlicesStep ==
  Counting /\ SlicesInv /\ [SlicesNext]_sliceVars => SlicesInv' /\ [Values!Next]_Shown
<1> SUFFICES ASSUME Counting, SlicesInv, [SlicesNext]_sliceVars
             PROVE  SlicesInv' /\ (Values!Next \/ Shown' = Shown)
  BY Zenon
<1>1. ASSUME NEW x \in Slots, NEW v, Shows(x, v)
      PROVE  Shown' = [Shown EXCEPT ![x] = v]
  BY <1>1, ZenonT(40) DEF Shows, Shown
<1>2. \A x \in Slots : Shown[x] = data(slice[x]) /\ Shown'[x] = data(slice[x])'
  BY Zenon DEF Shown
<1>3. ASSUME UNCHANGED sliceVars
      PROVE  SlicesInv' /\ Shown' = Shown
  BY <1>3, Zenon DEF sliceVars, SlicesInv, SlicesTypeOK, Shown, data
<1>4. ASSUME NEW x \in Slots, Create(x)
      PROVE  SlicesInv' /\ Values!Create(x)
  <2>1. PICK bytes \in Seq(Nat) : Make(x, bytes)
    BY <1>4, SlicesAssumption, Zenon DEF Create
  <2>2. SlicesInv' /\ Shows(x, bytes)
    BY <2>1, MakeStep, Zenon
  <2>3. Shown[x] = <<>>
    <3>1. slice[x] = Empty /\ Empty.refs_ = nullptr /\ Empty.bytes = <<>>
      BY <1>4, Zenon DEF Create, Empty, Inlined
    <3> QED
      BY <1>2, <3>1, Zenon DEF data
  <2>4. Shown'[x] = bytes /\ Shown' = [Shown EXCEPT ![x] = bytes]
    BY <1>1, <1>2, <2>2, Zenon DEF Shows
  <2> QED
    BY <2>2, <2>3, <2>4, ZenonT(40) DEF Values!Create, Shown
<1>5. ASSUME NEW x \in Slots, NEW y \in Slots, Shows(x, data(slice[y]))
      PROVE  Values!Copy(x, y)
  <2>1. Shown' = [Shown EXCEPT ![x] = Shown[y]]
    BY <1>1, <1>2, <1>5, Zenon
  <2> QED
    BY <2>1, Zenon DEF Values!Copy, Shown
<1>6. ASSUME NEW x \in Slots, NEW y \in Slots, Copy(x, y)
      PROVE  SlicesInv' /\ Values!Copy(x, y)
  BY <1>5, <1>6, CopyStep, Zenon DEF Copy
<1>7. ASSUME NEW x \in Slots, NEW y \in Slots, Move(x, y)
      PROVE  SlicesInv' /\ Values!Move(x, y)
  <2>1. x # y
    BY <1>7, Zenon DEF Move
  <2>2. Shown' = [Shown EXCEPT ![x] = Shown[y], ![y] = <<>>]
    BY <1>7, <2>1, MoveStep, ZenonT(40) DEF Shown
  <2> QED
    BY <1>7, <2>1, <2>2, MoveStep, Zenon DEF Values!Move, Shown
<1>8. ASSUME NEW x \in Slots, NEW y \in Slots, Concatenate(x, y)
      PROVE  SlicesInv' /\ (Values!Next \/ Shown' = Shown)
  <2>1. CASE Shows(x, data(slice[x]) \o data(slice[y]))
    <3>1. Shown' = [Shown EXCEPT ![x] = Shown[x] \o Shown[y]]
      BY <1>1, <1>2, <2>1, ZenonT(40)
    <3>2. Values!Concatenate(x, y)
      BY <3>1, Zenon DEF Values!Concatenate, Shown
    <3> QED
      BY <1>8, <3>2, ConcatenateStep, Zenon DEF Values!Next
  <2>2. CASE Shows(x, data(slice[y]))
    BY <1>5, <1>8, <2>2, ConcatenateStep, Zenon DEF Values!Next
  <2>3. CASE UNCHANGED sliceVars
    BY <1>3, <2>3, Zenon
  <2> QED
    BY <1>8, <2>1, <2>2, <2>3, ConcatenateStep, Zenon
<1>9. ASSUME NEW x \in Slots, clear(x)
      PROVE  SlicesInv' /\ Values!clear(x)
  <2>1. SlicesInv' /\ Shown' = [Shown EXCEPT ![x] = <<>>]
    BY <1>1, <1>9, ClearStep, Zenon
  <2> QED
    BY <2>1, Zenon DEF Values!clear, Shown
<1>10. ASSUME NEW x \in Slots, NEW n \in 1 .. slice[x].length,
              RemoveHead(x, n) \/ RemoveTail(x, n)
       PROVE  SlicesInv' /\ (Values!RemoveHead(x) \/ Values!RemoveTail(x))
  BY <1>10, RemoveStep, CutsStep, Zenon
<1> QED
  BY <1>3, <1>4, <1>6, <1>7, <1>8, <1>9, <1>10, Zenon DEF SlicesNext, Values!Next

LEMMA SlicesInitInv == Counting /\ SlicesInit => SlicesInv /\ Values!Init
<1> SUFFICES ASSUME Counting, SlicesInit PROVE SlicesInv /\ Values!Init
  BY Zenon
<1>1. /\ Empty \in SliceRecords /\ Empty.refs_ = nullptr /\ Fits(Empty, memory)
      /\ Empty.bytes = <<>>
  <2>1. <<>> \in Seq(Nat)
    OBVIOUS
  <2>2. Empty \in SliceRecords /\ Empty.refs_ = nullptr /\ Fits(Empty, memory)
    BY <2>1, InlinedOK, Zenon DEF Empty
  <2>3. Empty.bytes = <<>>
    BY Zenon DEF Empty, Inlined
  <2> QED
    BY <2>2, <2>3, Zenon
<1>2. SlicesTypeOK
  BY <1>1 DEF SlicesInit, SlicesTypeOK
<1>3. \A b \in Blocks : Users(slice, b) = {}
  BY <1>1, SlicesAssumption, Zenon DEF SlicesInit, Users
<1>4. SlicesInv
  BY <1>1, <1>2, <1>3, ZenonT(40) DEF SlicesInit, SlicesInv, Counting
<1>5. Values!Init
  BY <1>1, Zenon DEF SlicesInit, Values!Init, data
<1> QED
  BY <1>4, <1>5, Zenon

-----------------------------------------------------------------------------
(* The C interface: codecs. *)

ApiTypeOK ==
  /\ codec \in [Codecs -> {"none", "live", "deleted"}]
  /\ wrapper \in [Codecs -> {"none", "holds", "empty", "freed"}]
  /\ address \in [Addresses -> {"none", "live", "freed"}]
  /\ options \in [Options -> OptionsHold \cup {NULL}]
  /\ handler \in [Handlers -> {"none", "live", "freed"}]
  /\ client \in [Clients -> {"none", "live", "freed"}]
  /\ connection \in [Clients -> ConnectionHolds \cup {NULL}]

\* CodecOwnedOnce without counting.
OwnedOnce(k) == IF codec[k] = "live" THEN \E x : Owners(k) = {x} ELSE Owners(k) = {}
OneOwner == \A k \in Codecs : OwnedOnce(k)

\* The handle and the handler of a connection, which outlives them only when
\* it has nothing more to do.
HandleInv ==
  \A c \in Clients :
    /\ client[c] = "none" => connection[c] = NULL
    /\ client[c] = "live" =>
         /\ connection[c] # NULL /\ connection[c].work # "closing"
         /\ handler[connection[c].handler] = "live"
    /\ connection[c] # NULL /\ connection[c].work \in {"idle", "connect", "connected"} =>
         client[c] = "live"

\* The copies of local addresses: the options that point to one own it.
AddressInv ==
  \A o \in Options : options[o] # NULL =>
    /\ options[o].local_address = options[o].local_address_copy
    /\ options[o].local_address # NULL =>
         /\ address[options[o].local_address] = "live"
         /\ \A p \in Options :
              options[p] # NULL /\ options[p].local_address = options[o].local_address
                => p = o

ApiInv == ApiTypeOK /\ OneOwner /\ HandleInv /\ AddressInv

\* A codec is an object, and neither options nor a client.
LEMMA ApiKinds ==
  /\ \A k \in Codecs : k # NULL /\ k \notin Options /\ k \notin Clients
  /\ \A o \in Options : o \notin Clients
  /\ \A a \in Addresses : a # NULL
  /\ \A r \in OptionsHold : r # NULL
  /\ \A r \in ConnectionHolds : r # NULL
  BY ApiAssumption, Zenon

\* Who the owners of a codec are.
LEMMA OwnersAre ==
  ASSUME NEW k \in Codecs, NEW x
  PROVE  x \in Owners(k) <=>
           \/ x = k /\ wrapper[k] = "holds"
           \/ x \in Options /\ options[x] # NULL /\ options[x].codec = k
           \/ x \in Clients /\ connection[x] # NULL /\ connection[x].codec = k
  BY Zenon DEF Owners

LEMMA ApiInitInv == ApiInit => ApiInv
<1> SUFFICES ASSUME ApiInit PROVE ApiInv
  OBVIOUS
<1>1. ApiTypeOK /\ HandleInv /\ AddressInv
  BY Zenon DEF ApiInit, ApiTypeOK, HandleInv, AddressInv
<1>2. OneOwner
  BY OwnersAre, Zenon DEF ApiInit, OneOwner, OwnedOnce, Owners
<1> QED
  BY <1>1, <1>2, Zenon DEF ApiInv

LEMMA ApiTypeStep == ApiTypeOK /\ HandleInv /\ [ApiNext]_apiVars => ApiTypeOK'
<1> SUFFICES ASSUME ApiTypeOK, HandleInv, [ApiNext]_apiVars PROVE ApiTypeOK'
  BY Zenon
<1> USE DEF ApiTypeOK
<1>1. ASSUME NEW k \in Codecs, connx_codec_new(k) \/ connx_codec_destroy(k)
      PROVE  ApiTypeOK'
  BY <1>1 DEF connx_codec_new, connx_codec_destroy, Delete
<1>2. ASSUME NEW o \in Options, connx_client_options_new(o)
      PROVE  ApiTypeOK'
  BY <1>2, Zenon DEF connx_client_options_new, OptionsHold
<1>3. ASSUME NEW o \in Options, connx_client_options_destroy(o)
      PROVE  ApiTypeOK'
  BY <1>3, Zenon DEF connx_client_options_destroy, Delete, Free
<1>4. ASSUME NEW o \in Options, NEW k \in Codecs, connx_client_options_set_codec(o, k)
      PROVE  ApiTypeOK'
  BY <1>4 DEF connx_client_options_set_codec, Delete, OptionsHold
<1>5. ASSUME NEW o \in Options, NEW a \in Addresses \cup {NULL},
             connx_client_options_set_local_address(o, a)
      PROVE  ApiTypeOK'
<2>1. options[o] \in OptionsHold
  BY <1>5, Zenon DEF connx_client_options_set_local_address
<2>2. [options[o] EXCEPT !.local_address_copy = a, !.local_address = a] \in OptionsHold
  BY <2>1, ZenonT(40) DEF OptionsHold
<2>3. options' \in [Options -> OptionsHold \cup {NULL}]
  BY <1>5, <2>2, Zenon DEF connx_client_options_set_local_address
<2> QED
  BY <1>5, <2>3, Zenon DEF connx_client_options_set_local_address, Free
<1>6. ASSUME NEW o \in Options, NEW h \in Handlers, NEW c \in Clients,
             connx_client_new(h, o, c)
      PROVE  ApiTypeOK'
  BY <1>6 DEF connx_client_new, OptionsHold, ConnectionHolds
<1>7. ASSUME NEW h \in Handlers,
             connx_client_handler_new(h) \/ connx_client_handler_destroy(h)
      PROVE  ApiTypeOK'
  BY <1>7 DEF connx_client_handler_new, connx_client_handler_destroy
<1>8. ASSUME NEW c \in Clients,
             NEW work \in {"idle", "connect", "connected", "callback", "closing"},
             connection[c] # NULL, Works(c, work)
      PROVE  connection' \in [Clients -> ConnectionHolds \cup {NULL}]
  BY <1>8 DEF Works, ConnectionHolds
<1>9. ASSUME NEW c \in Clients,
             \/ connx_client_destroy(c) \/ connx_client_connect(c) \/ ConnectTask(c)
             \/ Callback(c) \/ CallbackReturns(c)
      PROVE  ApiTypeOK'
  BY <1>8, <1>9 DEF connx_client_destroy, connx_client_connect, ConnectTask, Callback,
                    CallbackReturns, HandleInv
<1>10. ASSUME NEW c \in Clients, LastReference(c)
       PROVE  ApiTypeOK'
  BY <1>10, Zenon DEF LastReference, Delete
<1>11. CASE UNCHANGED apiVars
  BY <1>11, Zenon DEF apiVars
<1> QED
  BY <1>1, <1>2, <1>3, <1>4, <1>5, <1>6, <1>7, <1>9, <1>10, <1>11, Zenon DEF ApiNext

\* A codec with an owner is live and has no other.
LEMMA TheOwner ==
  ASSUME OneOwner, NEW k \in Codecs, NEW x \in Owners(k)
  PROVE  codec[k] = "live" /\ Owners(k) = {x}
  BY DEF OneOwner, OwnedOnce

\* Nobody but the only owner holds the codec.
LEMMA SoleOwner ==
  ASSUME NEW k \in Codecs, NEW x, Owners(k) = {x}
  PROVE  /\ wrapper[k] = "holds" => x = k
         /\ \A o \in Options : options[o] # NULL /\ options[o].codec = k => x = o
         /\ \A c \in Clients : connection[c] # NULL /\ connection[c].codec = k => x = c
  BY OwnersAre

\* Creating and destroying codecs, and what does not concern them.
LEMMA OwnerCodecs ==
  ASSUME ApiTypeOK, OneOwner, NEW k \in Codecs, connx_codec_new(k) \/ connx_codec_destroy(k)
  PROVE  OneOwner'
<1> SUFFICES ASSUME NEW j \in Codecs PROVE OwnedOnce(j)'
  BY Zenon DEF OneOwner
<1>1. /\ \A i \in Codecs : i # k => codec'[i] = codec[i] /\ wrapper'[i] = wrapper[i]
      /\ UNCHANGED <<options, connection>>
  BY DEF connx_codec_new, connx_codec_destroy, Delete, ApiTypeOK
<1>2. CASE j # k
  <2>1. Owners(j)' = Owners(j)
    BY <1>1, <1>2, Zenon DEF Owners
  <2> QED
    BY <1>1, <1>2, <2>1, Zenon DEF OneOwner, OwnedOnce
<1>3. CASE j = k /\ connx_codec_new(k)
  <2>1. codec'[k] = "live" /\ wrapper'[k] = "holds" /\ Owners(k) = {}
    BY <1>3, Zenon DEF connx_codec_new, OneOwner, OwnedOnce, ApiTypeOK
  <2>2. Owners(k)' = {k}
    BY <1>1, <2>1, Zenon DEF Owners
  <2> QED
    BY <1>3, <2>1, <2>2, Zenon DEF OwnedOnce
<1>4. CASE j = k /\ connx_codec_destroy(k) /\ wrapper[k] = "holds"
  <2>1. Owners(k) = {k}
    <3>1. k \in Owners(k)
      BY <1>4, Zenon DEF Owners
    <3> QED
      BY <3>1, TheOwner, Zenon
  <2>2. codec'[k] = "deleted" /\ wrapper'[k] = "freed"
    BY <1>4, Zenon DEF connx_codec_destroy, Delete, ApiTypeOK
  <2>3. Owners(k)' = {}
    BY <1>1, <2>1, <2>2, ApiKinds DEF Owners
  <2> QED
    BY <1>4, <2>2, <2>3, Zenon DEF OwnedOnce
<1>5. CASE j = k /\ connx_codec_destroy(k) /\ wrapper[k] # "holds"
  <2>1. codec' = codec /\ wrapper'[k] = "freed"
    BY <1>5, Zenon DEF connx_codec_destroy, ApiTypeOK
  <2>2. Owners(k)' = Owners(k)
    BY <1>1, <1>5, <2>1, Zenon DEF Owners
  <2> QED
    BY <1>5, <2>1, <2>2, ZenonT(40) DEF OneOwner, OwnedOnce
<1> QED
  BY <1>2, <1>3, <1>4, <1>5, Zenon

\* Options that are created, that lose their codec with themselves, or that
\* get another.
LEMMA OwnerOptions ==
  ASSUME ApiTypeOK, OneOwner, NEW o \in Options,
         \/ connx_client_options_new(o) \/ connx_client_options_destroy(o)
         \/ \E k \in Codecs : connx_client_options_set_codec(o, k)
  PROVE  OneOwner'
<1> SUFFICES ASSUME NEW j \in Codecs PROVE OwnedOnce(j)'
  BY Zenon DEF OneOwner
<1>1. CASE connx_client_options_new(o)
  <2>1. /\ UNCHANGED <<codec, wrapper, connection>>
        /\ options[o] = NULL /\ options'[o].codec = NULL
        /\ \A p \in Options : p # o => options'[p] = options[p]
    BY <1>1, Zenon DEF connx_client_options_new, ApiTypeOK
  <2>2. Owners(j)' = Owners(j)
    BY <2>1, ApiKinds DEF Owners
  <2> QED
    BY <2>1, <2>2, ZenonT(40) DEF OneOwner, OwnedOnce
<1>2. CASE connx_client_options_destroy(o)
  <2>1. /\ UNCHANGED <<wrapper, connection>>
        /\ options[o] # NULL /\ options'[o] = NULL
        /\ \A p \in Options : p # o => options'[p] = options[p]
        /\ codec'[j] = IF j = options[o].codec THEN "deleted" ELSE codec[j]
    BY <1>2, Zenon DEF connx_client_options_destroy, Delete, ApiTypeOK
  <2>2. CASE options[o].codec = j
    <3>1. o \in Owners(j)
      BY <2>1, <2>2, Zenon DEF Owners
    <3>2. Owners(j) = {o}
      BY <3>1, TheOwner, Zenon
    <3>3. Owners(j)' = {}
      BY <2>1, <3>2, ApiKinds DEF Owners
    <3> QED
      BY <2>1, <2>2, <3>3, Zenon DEF OwnedOnce
  <2>3. CASE options[o].codec # j
    <3>1. Owners(j)' = Owners(j)
      BY <2>1, <2>3, Zenon DEF Owners
    <3> QED
      BY <2>1, <2>3, <3>1, ZenonT(40) DEF OneOwner, OwnedOnce
  <2> QED
    BY <2>2, <2>3, Zenon
<1>3. ASSUME NEW k \in Codecs, connx_client_options_set_codec(o, k)
      PROVE  OwnedOnce(j)'
  <2>1. /\ UNCHANGED connection
        /\ wrapper'[k] = "empty" /\ \A i \in Codecs : i # k => wrapper'[i] = wrapper[i]
        /\ codec'[j] = IF j = options[o].codec THEN "deleted" ELSE codec[j]
    BY <1>3 DEF connx_client_options_set_codec, Delete, ApiTypeOK
  <2>2. /\ options[o] \in OptionsHold
        /\ options'[o] = [options[o] EXCEPT !.codec = IF wrapper[k] = "holds" THEN k ELSE NULL]
    BY <1>3 DEF connx_client_options_set_codec, ApiTypeOK
  <2> \A p \in Options : p # o => options'[p] = options[p]
    BY <1>3 DEF connx_client_options_set_codec, ApiTypeOK
  <2>3. options'[o] # NULL
    <3>1. options'[o] \in OptionsHold
      BY <2>2, Zenon DEF OptionsHold
    <3> QED
      BY <3>1, ApiKinds, Zenon
  <2>4. /\ wrapper[k] = "holds" => options'[o].codec = k
        /\ wrapper[k] # "holds" => options'[o].codec = NULL
    BY <2>2, Zenon DEF OptionsHold
  <2>5. options[o] # NULL
    BY <2>2, ApiKinds, Zenon
  <2>6. CASE j = k /\ wrapper[k] = "holds"
    <3>1. k \in Owners(k)
      BY <2>6, Zenon DEF Owners
    <3>2. Owners(k) = {k} /\ codec[k] = "live"
      BY <3>1, TheOwner, Zenon
    <3>3. options[o].codec # k
      <4>1. o \notin Owners(k)
        BY <3>2, ApiKinds, ZenonT(40)
      <4> QED
        BY <4>1, <2>5, Zenon DEF Owners
    <3>4. Owners(k)' = {o}
      BY <2>1, <2>3, <2>4, <2>6, <3>2, ApiKinds, SoleOwner, SMTT(30) DEF Owners
    <3> QED
      BY <2>1, <2>6, <3>2, <3>3, <3>4, Zenon DEF OwnedOnce
  <2>7. CASE ~(j = k /\ wrapper[k] = "holds") /\ options[o].codec = j
    <3>1. o \in Owners(j)
      BY <2>5, <2>7, Zenon DEF Owners
    <3>2. Owners(j) = {o}
      BY <3>1, TheOwner, ZenonT(40)
    <3>3. Owners(j)' = {}
      BY <2>1, <2>4, <2>7, <3>2, ApiKinds, SoleOwner DEF Owners
    <3> QED
      BY <2>1, <2>7, <3>3, Zenon DEF OwnedOnce
  <2>8. CASE ~(j = k /\ wrapper[k] = "holds") /\ options[o].codec # j
    <3>1. Owners(j)' = Owners(j)
      BY <2>1, <2>4, <2>8, ApiKinds DEF Owners
    <3> QED
      BY <2>1, <2>8, <3>1, ZenonT(40) DEF OneOwner, OwnedOnce
  <2> QED
    BY <2>6, <2>7, <2>8, Zenon
<1> QED
  BY <1>1, <1>2, <1>3, Zenon

\* The codec goes from the options to the connection of a new client.
LEMMA OwnerClient ==
  ASSUME ApiTypeOK, OneOwner, HandleInv, NEW o \in Options, NEW h \in Handlers,
         NEW c \in Clients, connx_client_new(h, o, c)
  PROVE  OneOwner'
<1> SUFFICES ASSUME NEW j \in Codecs PROVE OwnedOnce(j)'
  BY Zenon DEF OneOwner
<1>1. CASE UNCHANGED <<client, connection, options>>
  BY <1>1, ZenonT(40) DEF connx_client_new, OneOwner, OwnedOnce, Owners
<1>2. CASE ~UNCHANGED <<client, connection, options>>
  <2>1. /\ options[o] \in OptionsHold /\ options[o].codec # NULL
        /\ options'[o] = [options[o] EXCEPT !.codec = NULL]
    BY <1>2 DEF connx_client_new, ApiTypeOK
  <2>2. connection'[c] =
          [codec |-> options[o].codec, local_address |-> options[o].local_address,
           handler |-> h, made_with |-> o, work |-> "idle"]
    BY <1>2, Zenon DEF connx_client_new, ApiTypeOK
  <2> /\ UNCHANGED <<codec, wrapper>> /\ connection[c] = NULL
      /\ \A p \in Options : p # o => options'[p] = options[p]
      /\ \A d \in Clients : d # c => connection'[d] = connection[d]
    BY <1>2 DEF connx_client_new, ApiTypeOK, HandleInv
  <2>3. options'[o].codec = NULL /\ options[o] # NULL
    BY <2>1, ApiKinds, Zenon DEF OptionsHold
  <2>4. connection'[c].codec = options[o].codec /\ connection'[c] # NULL
    <3>1. connection'[c] \in ConnectionHolds
      BY <2>1, <2>2 DEF OptionsHold, ConnectionHolds
    <3> QED
      BY <2>2, <3>1, ApiKinds
  <2>5. CASE options[o].codec = j
    <3>1. o \in Owners(j)
      BY <2>3, <2>5, Zenon DEF Owners
    <3>2. Owners(j) = {o} /\ codec[j] = "live"
      BY <3>1, TheOwner, Zenon
    <3>3. Owners(j)' = {c}
      BY <2>3, <2>4, <2>5, <3>2, ApiKinds, SoleOwner DEF Owners
    <3> QED
      BY <3>2, <3>3, Zenon DEF OwnedOnce
  <2>6. CASE options[o].codec # j
    <3>1. Owners(j)' = Owners(j)
      BY <2>3, <2>4, <2>6, ApiKinds DEF Owners
    <3> QED
      BY <3>1, ZenonT(40) DEF OneOwner, OwnedOnce
  <2> QED
    BY <2>5, <2>6, Zenon
<1> QED
  BY <1>1, <1>2, Zenon

\* The last reference to a connection deletes its codec.
LEMMA OwnerLastReference ==
  ASSUME ApiTypeOK, OneOwner, NEW c \in Clients, LastReference(c)
  PROVE  OneOwner'
<1> SUFFICES ASSUME NEW j \in Codecs PROVE OwnedOnce(j)'
  BY Zenon DEF OneOwner
<1>1. /\ UNCHANGED <<wrapper, options>>
      /\ connection[c] # NULL /\ connection'[c] = NULL
      /\ \A d \in Clients : d # c => connection'[d] = connection[d]
      /\ codec'[j] = IF j = connection[c].codec THEN "deleted" ELSE codec[j]
  BY Zenon DEF LastReference, Delete, ApiTypeOK
<1>2. CASE connection[c].codec = j
  <2>1. c \in Owners(j)
    BY <1>1, <1>2, Zenon DEF Owners
  <2>2. Owners(j) = {c}
    BY <2>1, TheOwner, Zenon
  <2>3. Owners(j)' = {}
    BY <1>1, <2>2, ApiKinds DEF Owners
  <2> QED
    BY <1>1, <1>2, <2>3, Zenon DEF OwnedOnce
<1>3. CASE connection[c].codec # j
  <2>1. Owners(j)' = Owners(j)
    BY <1>1, <1>3, Zenon DEF Owners
  <2> QED
    BY <1>1, <1>3, <2>1, ZenonT(40) DEF OneOwner, OwnedOnce
<1> QED
  BY <1>2, <1>3, Zenon

\* A connection that goes on keeps what it refers to.
LEMMA WorksKeeps ==
  ASSUME ApiTypeOK, NEW c \in Clients, connection[c] # NULL,
         NEW work \in {"idle", "connect", "connected", "callback", "closing"}, Works(c, work)
  PROVE  /\ connection'[c] # NULL /\ connection'[c].work = work
         /\ connection'[c].codec = connection[c].codec
         /\ connection'[c].handler = connection[c].handler
         /\ connection'[c].made_with = connection[c].made_with
         /\ connection'[c].local_address = connection[c].local_address
         /\ \A d \in Clients : d # c => connection'[d] = connection[d]
<1>1. connection[c] \in ConnectionHolds
  BY Zenon DEF ApiTypeOK
<1>2. connection'[c] = [connection[c] EXCEPT !.work = work]
  BY Zenon DEF Works, ApiTypeOK
<1>3. connection'[c] \in ConnectionHolds
  BY <1>1, <1>2, Zenon DEF ConnectionHolds
<1>4. \A d \in Clients : d # c => connection'[d] = connection[d]
  BY DEF Works, ApiTypeOK
<1>5. connection'[c] # NULL
  BY <1>3, ApiKinds, Zenon
<1> QED
  BY <1>1, <1>2, <1>4, <1>5, Zenon DEF ConnectionHolds

\* The steps of a connection up to the last reference: only its work changes,
\* and the handle when it is destroyed.
LEMMA WorkSteps ==
  ASSUME ApiTypeOK, HandleInv, NEW c \in Clients,
         \/ connx_client_destroy(c) \/ connx_client_connect(c) \/ ConnectTask(c)
         \/ Callback(c) \/ CallbackReturns(c)
  PROVE  /\ UNCHANGED <<codec, wrapper, address, options, handler>>
         /\ connection[c] # NULL
         /\ \E work \in {"idle", "connect", "connected", "callback", "closing"} :
              /\ Works(c, work)
              /\ \/ client' = client /\ client[c] = "live" /\ work # "closing"
                 \/ client' = client /\ client[c] = "freed" /\ work = "closing"
                 \/ client' = [client EXCEPT ![c] = "freed"]
                    /\ work \in {"callback", "closing"}
<1>1. CASE connx_client_destroy(c)
  BY <1>1, Zenon DEF connx_client_destroy, HandleInv
<1>2. CASE connx_client_connect(c)
  BY <1>2, Zenon DEF connx_client_connect, HandleInv
<1>3. CASE ConnectTask(c)
  BY <1>3, Zenon DEF ConnectTask, HandleInv
<1>4. CASE Callback(c)
  BY <1>4, Zenon DEF Callback, HandleInv
<1>5. CASE CallbackReturns(c)
  BY <1>5, Zenon DEF CallbackReturns
<1> QED
  BY <1>1, <1>2, <1>3, <1>4, <1>5, Zenon

LEMMA OneOwnerStep == ApiTypeOK /\ OneOwner /\ HandleInv /\ [ApiNext]_apiVars => OneOwner'
<1> SUFFICES ASSUME ApiTypeOK, OneOwner, HandleInv, [ApiNext]_apiVars PROVE OneOwner'
  BY Zenon
<1>1. ASSUME UNCHANGED <<codec, wrapper>>,
             \A k \in Codecs : \A o \in Options :
               options'[o] # NULL /\ options'[o].codec = k
                 <=> options[o] # NULL /\ options[o].codec = k,
             \A k \in Codecs : \A c \in Clients :
               connection'[c] # NULL /\ connection'[c].codec = k
                 <=> connection[c] # NULL /\ connection[c].codec = k
      PROVE  OneOwner'
  <2>1. \A k \in Codecs : Owners(k)' = Owners(k)
    BY <1>1 DEF Owners
  <2> QED
    BY <1>1, <2>1, ZenonT(40) DEF OneOwner, OwnedOnce
<1>2. ASSUME NEW o \in Options, NEW a \in Addresses \cup {NULL},
             connx_client_options_set_local_address(o, a)
      PROVE  OneOwner'
  <2>1. /\ UNCHANGED <<codec, wrapper, connection>>
        /\ \A p \in Options : p # o => options'[p] = options[p]
    BY <1>2, Zenon DEF connx_client_options_set_local_address, ApiTypeOK
  <2>2. /\ options[o] \in OptionsHold
        /\ options'[o] = [options[o] EXCEPT !.local_address_copy = a, !.local_address = a]
    BY <1>2 DEF connx_client_options_set_local_address, ApiTypeOK
  <2>3. options'[o] \in OptionsHold /\ options'[o].codec = options[o].codec
    BY <2>2, ZenonT(40) DEF OptionsHold
  <2>4. options[o] # NULL /\ options'[o] # NULL
    BY <2>2, <2>3, ApiKinds, Zenon
  <2> QED
    BY <1>1, <2>1, <2>3, <2>4, Zenon
<1>3. ASSUME NEW h \in Handlers,
             connx_client_handler_new(h) \/ connx_client_handler_destroy(h)
      PROVE  OneOwner'
  BY <1>1, <1>3, Zenon DEF connx_client_handler_new, connx_client_handler_destroy
<1>4. ASSUME NEW c \in Clients,
             \/ connx_client_destroy(c) \/ connx_client_connect(c) \/ ConnectTask(c)
             \/ Callback(c) \/ CallbackReturns(c)
      PROVE  OneOwner'
  <2>1. /\ UNCHANGED <<codec, wrapper, options>> /\ connection[c] # NULL
        /\ \E work \in {"idle", "connect", "connected", "callback", "closing"} : Works(c, work)
    BY <1>4, WorkSteps, Zenon
  <2>2. /\ connection'[c] # NULL /\ connection'[c].codec = connection[c].codec
        /\ \A d \in Clients : d # c => connection'[d] = connection[d]
    BY <2>1, WorksKeeps, Zenon
  <2> QED
    BY <1>1, <2>1, <2>2, Zenon
<1>5. CASE UNCHANGED apiVars
  BY <1>1, <1>5, Zenon DEF apiVars
<1> QED
  BY <1>2, <1>3, <1>4, <1>5, OwnerCodecs, OwnerOptions, OwnerClient, OwnerLastReference, Zenon
     DEF ApiNext

LEMMA HandleStep == ApiTypeOK /\ HandleInv /\ [ApiNext]_apiVars => HandleInv'
<1> SUFFICES ASSUME ApiTypeOK, HandleInv, [ApiNext]_apiVars PROVE HandleInv'
  BY Zenon
<1>1. ASSUME UNCHANGED <<handler, client, connection>>
      PROVE  HandleInv'
  BY <1>1, Zenon DEF HandleInv
<1>2. ASSUME NEW k \in Codecs, connx_codec_new(k) \/ connx_codec_destroy(k)
      PROVE  HandleInv'
  BY <1>1, <1>2, Zenon DEF connx_codec_new, connx_codec_destroy
<1>3. ASSUME NEW o \in Options,
             \/ connx_client_options_new(o) \/ connx_client_options_destroy(o)
             \/ \E k \in Codecs : connx_client_options_set_codec(o, k)
             \/ \E a \in Addresses \cup {NULL} : connx_client_options_set_local_address(o, a)
      PROVE  HandleInv'
  BY <1>1, <1>3, ZenonT(40) DEF connx_client_options_new, connx_client_options_destroy,
       connx_client_options_set_codec, connx_client_options_set_local_address
<1>4. ASSUME NEW o \in Options, NEW h \in Handlers, NEW c \in Clients,
             connx_client_new(h, o, c)
      PROVE  HandleInv'
  <2>1. CASE UNCHANGED <<client, connection, options>>
    BY <1>1, <1>4, <2>1, ZenonT(40) DEF connx_client_new
  <2>2. CASE ~UNCHANGED <<client, connection, options>>
    <3>1. /\ handler' = handler /\ handler[h] = "live" /\ client' = [client EXCEPT ![c] = "live"]
          /\ options[o] \in OptionsHold /\ options[o].codec # NULL
          /\ \A d \in Clients : d # c => connection'[d] = connection[d]
      BY <1>4, <2>2 DEF connx_client_new, ApiTypeOK
    <3>2. connection'[c] =
            [codec |-> options[o].codec, local_address |-> options[o].local_address,
             handler |-> h, made_with |-> o, work |-> "idle"]
      BY <1>4, <2>2, Zenon DEF connx_client_new, ApiTypeOK
    <3>3. connection'[c] \in ConnectionHolds
      BY <3>1, <3>2, SMTT(30) DEF OptionsHold, ConnectionHolds
    <3>4. connection'[c] # NULL /\ connection'[c].handler = h /\ connection'[c].work = "idle"
      BY <3>2, <3>3, ApiKinds, SMTT(30)
    <3> QED
      BY <3>1, <3>4 DEF HandleInv, ApiTypeOK
  <2> QED
    BY <2>1, <2>2, Zenon
<1>5. ASSUME NEW h \in Handlers,
             connx_client_handler_new(h) \/ connx_client_handler_destroy(h)
      PROVE  HandleInv'
  <2>1. /\ UNCHANGED <<client, connection>>
        /\ \A g \in Handlers : g # h => handler'[g] = handler[g]
    BY <1>5, Zenon DEF connx_client_handler_new, connx_client_handler_destroy, ApiTypeOK
  <2>2. \A c \in Clients : client[c] = "live" =>
          connection[c].handler \in Handlers /\ connection[c].handler # h
    BY <1>5, ZenonT(40) DEF connx_client_handler_new, connx_client_handler_destroy, ApiTypeOK, HandleInv,
                ConnectionHolds
  <2> QED
    BY <2>1, <2>2, Zenon DEF HandleInv
<1>6. ASSUME NEW c \in Clients,
             \/ connx_client_destroy(c) \/ connx_client_connect(c) \/ ConnectTask(c)
             \/ Callback(c) \/ CallbackReturns(c)
      PROVE  HandleInv'
  <2>1. PICK work \in {"idle", "connect", "connected", "callback", "closing"} :
          /\ Works(c, work)
          /\ \/ client' = client /\ client[c] = "live" /\ work # "closing"
             \/ client' = client /\ client[c] = "freed" /\ work = "closing"
             \/ client' = [client EXCEPT ![c] = "freed"] /\ work \in {"callback", "closing"}
    BY <1>6, WorkSteps, Zenon
  <2>2. handler' = handler /\ connection[c] # NULL
    BY <1>6, WorkSteps, ZenonT(40)
  <2>3. /\ connection'[c] # NULL /\ connection'[c].work = work
        /\ connection'[c].handler = connection[c].handler
        /\ \A d \in Clients : d # c => connection'[d] = connection[d]
    BY <2>1, <2>2, WorksKeeps
  <2> QED
    BY <2>1, <2>2, <2>3 DEF HandleInv, ApiTypeOK
<1>7. ASSUME NEW c \in Clients, LastReference(c)
      PROVE  HandleInv'
  BY <1>7, ZenonT(40) DEF LastReference, HandleInv, ApiTypeOK
<1>8. CASE UNCHANGED apiVars
  BY <1>1, <1>8, ZenonT(40) DEF apiVars
<1> QED
  BY <1>2, <1>3, <1>4, <1>5, <1>6, <1>7, <1>8, Zenon DEF ApiNext

\* Options whose local address and its copy stay, while the addresses that
\* they point to live on.
LEMMA AddressSame ==
  ASSUME AddressInv,
         \A o \in Options :
           /\ options'[o] # NULL => options[o] # NULL
           /\ options'[o] # NULL =>
                /\ options'[o].local_address = options[o].local_address
                /\ options'[o].local_address_copy = options[o].local_address_copy
                /\ options[o].local_address # NULL =>
                     address'[options[o].local_address] = address[options[o].local_address]
  PROVE  AddressInv'
  BY DEF AddressInv

LEMMA AddressStep == ApiTypeOK /\ HandleInv /\ AddressInv /\ [ApiNext]_apiVars => AddressInv'
<1> SUFFICES ASSUME ApiTypeOK, HandleInv, AddressInv, [ApiNext]_apiVars PROVE AddressInv'
  BY Zenon
<1>1. ASSUME UNCHANGED <<address, options>>
      PROVE  AddressInv'
  BY <1>1, Zenon DEF AddressInv
<1>2. ASSUME NEW k \in Codecs, connx_codec_new(k) \/ connx_codec_destroy(k)
      PROVE  AddressInv'
  BY <1>1, <1>2, Zenon DEF connx_codec_new, connx_codec_destroy
<1>3. ASSUME NEW o \in Options, connx_client_options_new(o)
      PROVE  AddressInv'
  <2>1. /\ address' = address
        /\ options'[o].local_address = NULL /\ options'[o].local_address_copy = NULL
        /\ \A p \in Options : p # o => options'[p] = options[p]
    BY <1>3, ZenonT(40) DEF connx_client_options_new, ApiTypeOK
  <2> QED
    BY <2>1, SMTT(30) DEF AddressInv
<1>4. ASSUME NEW o \in Options, connx_client_options_destroy(o)
      PROVE  AddressInv'
  <2>1. /\ options[o] # NULL /\ options'[o] = NULL
        /\ \A p \in Options : p # o => options'[p] = options[p]
        /\ \A a \in Addresses : a # options[o].local_address_copy => address'[a] = address[a]
    BY <1>4, Zenon DEF connx_client_options_destroy, Free, ApiTypeOK
  <2>2. \A p \in Options : p # o /\ options[p] # NULL /\ options[p].local_address # NULL =>
          /\ options[p].local_address \in Addresses
          /\ options[p].local_address # options[o].local_address_copy
    BY <2>1 DEF AddressInv, ApiTypeOK, OptionsHold
  <2> QED
    BY <2>1, <2>2, AddressSame, Zenon
<1>5. ASSUME NEW o \in Options, NEW k \in Codecs, connx_client_options_set_codec(o, k)
      PROVE  AddressInv'
  <2>1. /\ options[o] \in OptionsHold
        /\ \E v \in Codecs \cup {NULL} : options'[o] = [options[o] EXCEPT !.codec = v]
    BY <1>5, ZenonT(40) DEF connx_client_options_set_codec, ApiTypeOK
  <2>2. address' = address /\ \A p \in Options : p # o => options'[p] = options[p]
    BY <1>5, Zenon DEF connx_client_options_set_codec, ApiTypeOK
  <2>3. /\ options'[o].local_address = options[o].local_address
        /\ options'[o].local_address_copy = options[o].local_address_copy
        /\ options[o] # NULL
    BY <2>1, ApiKinds, ZenonT(40) DEF OptionsHold
  <2> QED
    BY <2>2, <2>3, AddressSame, Zenon
<1>6. ASSUME NEW o \in Options, NEW a \in Addresses \cup {NULL},
             connx_client_options_set_local_address(o, a)
      PROVE  AddressInv'
  <2>1. /\ options[o] \in OptionsHold
        /\ options'[o] = [options[o] EXCEPT !.local_address_copy = a, !.local_address = a]
    BY <1>6 DEF connx_client_options_set_local_address, ApiTypeOK
  <2>2. /\ options[o] # NULL
        /\ options'[o].local_address = a /\ options'[o].local_address_copy = a
    BY <2>1, ApiKinds, Zenon DEF OptionsHold
  <2>3. /\ \A p \in Options : p # o => options'[p] = options[p]
        /\ a # NULL => address[a] = "none" /\ address'[a] = "live"
        /\ \A b \in Addresses : b # a /\ b # options[o].local_address_copy =>
             address'[b] = address[b]
    BY <1>6, ZenonT(40) DEF connx_client_options_set_local_address, Free, ApiTypeOK
  <2>4. \A p \in Options : p # o /\ options[p] # NULL /\ options[p].local_address # NULL =>
          /\ options[p].local_address \in Addresses
          /\ options[p].local_address # options[o].local_address_copy
          /\ options[p].local_address # a
    BY <2>2, <2>3 DEF AddressInv, ApiTypeOK, OptionsHold
  <2> QED
    BY <2>2, <2>3, <2>4 DEF AddressInv
<1>7. ASSUME NEW o \in Options, NEW h \in Handlers, NEW c \in Clients,
             connx_client_new(h, o, c)
      PROVE  AddressInv'
  <2>1. CASE UNCHANGED <<client, connection, options>>
    BY <1>1, <1>7, <2>1, Zenon DEF connx_client_new
  <2>2. CASE ~UNCHANGED <<client, connection, options>>
    <3>1. /\ options[o] \in OptionsHold
          /\ options'[o] = [options[o] EXCEPT !.codec = NULL]
      BY <1>7, <2>2, Zenon DEF connx_client_new, ApiTypeOK
    <3>2. /\ options'[o].local_address = options[o].local_address
          /\ options'[o].local_address_copy = options[o].local_address_copy
          /\ options[o] # NULL
      BY <3>1, ApiKinds, Zenon DEF OptionsHold
    <3>3. address' = address /\ \A p \in Options : p # o => options'[p] = options[p]
      BY <1>7, <2>2, Zenon DEF connx_client_new, ApiTypeOK
    <3> QED
      BY <3>2, <3>3, AddressSame, Zenon
  <2> QED
    BY <2>1, <2>2, Zenon
<1>8. ASSUME NEW h \in Handlers,
             connx_client_handler_new(h) \/ connx_client_handler_destroy(h)
      PROVE  AddressInv'
  BY <1>1, <1>8, Zenon DEF connx_client_handler_new, connx_client_handler_destroy
<1>9. ASSUME NEW c \in Clients,
             \/ connx_client_destroy(c) \/ connx_client_connect(c) \/ ConnectTask(c)
             \/ Callback(c) \/ CallbackReturns(c)
      PROVE  AddressInv'
  BY <1>1, <1>9, WorkSteps, Zenon
<1>10. ASSUME NEW c \in Clients, LastReference(c)
       PROVE  AddressInv'
  BY <1>1, <1>10, Zenon DEF LastReference
<1>11. CASE UNCHANGED apiVars
  BY <1>1, <1>11, Zenon DEF apiVars
<1> QED
  BY <1>2, <1>3, <1>4, <1>5, <1>6, <1>7, <1>8, <1>9, <1>10, <1>11, ZenonT(40) DEF ApiNext

\* ApiInv is inductive.
LEMMA ApiInvariance == ApiInit /\ [][ApiNext]_apiVars => []ApiInv
<1>1. ApiInv /\ [ApiNext]_apiVars => ApiInv'
  BY ApiTypeStep, OneOwnerStep, HandleStep, AddressStep, Zenon DEF ApiInv
<1> QED
  BY <1>1, ApiInitInv, PTL

-----------------------------------------------------------------------------
(* The timers of the poll thread. *)

LoopTypeOK ==
  /\ backend \in Backends
  /\ now \in Nat /\ running \in BOOLEAN
  /\ timers \subseteq [of : Connectors, deadline : Nat]
  /\ wakeups \in Nat
  /\ poll \in {"top", "enter", "wait", "dispatch", "gone"}
  /\ timeout \in Nat /\ until \in Nat /\ lag \in 0 .. MaxLag
  /\ arm \in [Connectors -> {"idle", "added", "done"}]

\* A wakeup is there or on its way.
Woken == wakeups > 0 \/ \E c \in Connectors : arm[c] = "added"

\* How late timer t can be, by the place of the poll thread.  Past the timeout's
\* computation, the wait is short enough for the timer or a wakeup ends it.
OnTime(t) ==
  /\ poll \in {"top", "enter"} => t.deadline + lag >= now
  /\ poll = "enter" => Woken \/ timeout = 0 \/ now + timeout <= t.deadline + lag
  /\ poll = "wait" =>
       /\ t.deadline + lag >= now
       /\ Woken \/ until <= now \/ until <= t.deadline + lag
  /\ poll = "dispatch" => t.deadline + MaxLag + lag >= now
  /\ poll # "gone"

LoopInv == LoopTypeOK /\ (running => \A t \in timers : OnTime(t)) /\ (running => poll # "gone")

INSTANCE WellFoundedInduction

\* A nonempty set of numbers has a least one.
LEMMA LeastOne ==
  ASSUME NEW S \in SUBSET Nat, S # {}
  PROVE  \E m \in S : \A k \in S : m <= k
<1>1. PICK m \in S : \A k \in S : ~(<<k, m>> \in OpToRel(<, Nat))
  BY NatLessThanWellFounded, WFMin, ZenonT(40)
<1>2. ASSUME NEW k \in S PROVE m <= k
  <2>1. ~(<<k, m>> \in OpToRel(<, Nat))
    BY <1>1, ZenonT(40)
  <2>2. ~(k < m)
    BY <2>1, Zenon DEF OpToRel
  <2> QED
    BY <2>2
<1> QED
  BY <1>2, Zenon

\* The timeout is no later than any timer that is not yet due.
LEMMA TimeoutIs ==
  ASSUME LoopTypeOK
  PROVE  /\ NextTimeoutMs \in Nat
         /\ \A t \in timers : NextTimeoutMs = 0 \/ now + NextTimeoutMs <= t.deadline
<1>1. kMaxPollTimeoutMs \in Nat /\ now \in Nat /\ \A t \in timers : t.deadline \in Nat
  BY LoopAssumption, Zenon DEF LoopTypeOK
<1>2. CASE timers = {}
  BY <1>1, <1>2, Zenon DEF NextTimeoutMs
<1>3. CASE timers # {}
  <2> DEFINE diffs == {t.deadline - now : t \in timers}
             diff == CHOOSE d \in diffs : \A e \in diffs : d <= e
  <2>1. \E d \in diffs : \A e \in diffs : d <= e
    <3>1. PICK m \in {t.deadline : t \in timers} : \A k \in {t.deadline : t \in timers} : m <= k
      BY <1>1, <1>3, LeastOne, ZenonT(40)
    <3>2. m - now \in diffs
      BY <3>1, Zenon
    <3>3. ASSUME NEW e \in diffs PROVE m - now <= e
      <4>1. PICK t \in timers : e = t.deadline - now
        BY Zenon
      <4>2. m \in Nat /\ m <= t.deadline
        BY <1>1, <3>1, Zenon
      <4> QED
        BY <1>1, <4>1, <4>2
    <3> QED
      BY <3>2, <3>3, Zenon
  <2>2. diff \in diffs /\ \A e \in diffs : diff <= e
    <3> HIDE DEF diffs
    <3> QED
      BY <2>1, Zenon
  <2>3. diff \in Int /\ \A t \in timers : diff <= t.deadline - now
    <3>1. diffs \subseteq Int
      BY <1>1
    <3>2. \A t \in timers : t.deadline - now \in diffs
      BY Zenon
    <3> HIDE DEF diffs, diff
    <3> QED
      BY <2>2, <3>1, <3>2, ZenonT(40)
  <2>4. NextTimeoutMs = IF diff <= 0 THEN 0
                        ELSE IF diff > kMaxPollTimeoutMs THEN kMaxPollTimeoutMs ELSE diff
    BY <1>3, Zenon DEF NextTimeoutMs
  <2> HIDE DEF diff
  <2> QED
    BY <1>1, <2>3, <2>4
<1> QED
  BY <1>2, <1>3, Zenon

\* A wake leaves a wakeup, on every back end.
LEMMA WakeWakes == LoopTypeOK /\ Wake => wakeups' \in Nat /\ wakeups' > 0
  BY LoopAssumption DEF LoopTypeOK, Wake, WakeEventfd, WakePipe, WakePort

LEMMA WaitTakesNat == LoopTypeOK => WaitTakes \in Nat
  BY LoopAssumption DEF LoopTypeOK, WaitTakes, WaitEventfd, WaitPipe, WaitPort

LEMMA LoopInitInv == LoopInit => LoopInv
  BY LoopAssumption DEF LoopInit, LoopInv, LoopTypeOK, OnTime

LEMMA LoopStep == LoopInv /\ [LoopNext]_loopVars => LoopInv'
<1> SUFFICES ASSUME LoopInv, [LoopNext]_loopVars PROVE LoopInv'
  OBVIOUS
<1>a. LoopTypeOK /\ MaxLag \in Nat
  BY LoopAssumption, Zenon DEF LoopInv
<1>b. \A t \in timers : t.deadline \in Nat
  BY <1>a, Zenon DEF LoopTypeOK
<1> USE DEF pollVars
<1>1. CASE LoopTop
  <2>1. LoopTypeOK'
    BY <1>a, <1>1, TimeoutIs, Zenon DEF LoopTop, LoopTypeOK
  <2>2. ASSUME running', NEW t \in timers'
        PROVE  OnTime(t)'
    <3>1. t \in timers /\ running /\ UNCHANGED <<now, lag>>
      BY <1>1, <2>2, Zenon DEF LoopTop
    <3>2. poll' = "enter" /\ timeout' = NextTimeoutMs
      BY <1>1, <3>1, Zenon DEF LoopTop
    <3>3. t.deadline + lag >= now
      BY <1>1, <3>1, Zenon DEF LoopTop, LoopInv, OnTime
    <3>4. t.deadline \in Nat /\ lag \in Nat /\ now \in Nat
      BY <1>a, <1>b, <3>1 DEF LoopTypeOK
    <3>5. timeout' \in Nat /\ (timeout' = 0 \/ now + timeout' <= t.deadline)
      BY <1>a, <3>1, <3>2, TimeoutIs, ZenonT(40)
    <3>6. timeout' = 0 \/ now + timeout' <= t.deadline + lag
      BY <3>4, <3>5
    <3> QED
      BY <3>1, <3>2, <3>3, <3>6, ZenonT(40) DEF OnTime
  <2> QED
    BY <1>1, <2>1, <2>2, Zenon DEF LoopTop, LoopInv
<1>2. CASE WaitEnter
  <2>1. LoopTypeOK' /\ until' = now + timeout
    BY <1>a, <1>2, SMTT(30) DEF WaitEnter, LoopTypeOK
  <2>2. ASSUME running', NEW t \in timers'
        PROVE  OnTime(t)'
    BY <1>a, <1>b, <1>2, <2>1, <2>2, SMTT(30) DEF WaitEnter, LoopInv, LoopTypeOK, OnTime, Woken
  <2> QED
    BY <1>2, <2>1, <2>2, ZenonT(40) DEF WaitEnter, LoopInv
<1>3. CASE Wait \/ WaitSocket
  <2>1. LoopTypeOK'
    BY <1>a, <1>3, WaitTakesNat, SMTT(30) DEF Wait, WaitSocket, LoopTypeOK
  <2>2. ASSUME running', NEW t \in timers'
        PROVE  OnTime(t)'
    <3>1. /\ poll = "wait" /\ poll' = "dispatch" /\ lag' = 0
          /\ UNCHANGED <<now, running, timers>>
      BY <1>3, Zenon DEF Wait, WaitSocket
    <3>2. OnTime(t) /\ t.deadline \in Nat
      BY <1>b, <2>2, <3>1, Zenon DEF LoopInv
    <3> QED
      BY <1>a, <3>1, <3>2 DEF LoopTypeOK, OnTime
  <2> QED
    BY <1>3, <2>1, <2>2, ZenonT(40) DEF Wait, WaitSocket, LoopInv
<1>4. CASE Dispatch
  <2>1. LoopTypeOK'
    BY <1>a, <1>4, ZenonT(40) DEF Dispatch, PopExpired, LoopTypeOK
  <2>2. ASSUME running', NEW t \in timers'
        PROVE  OnTime(t)'
    BY <1>a, <1>b, <1>4, <2>2, SMTT(30) DEF Dispatch, PopExpired, LoopInv, LoopTypeOK, OnTime
  <2> QED
    BY <1>4, <2>1, <2>2, Zenon DEF Dispatch, LoopInv
<1>5. ASSUME NEW c \in Connectors, ArmAdd(c)
      PROVE  LoopInv'
  <2>1. PICK d \in Timeouts : timers' = timers \cup {[of |-> c, deadline |-> now + d]}
    BY <1>5, Zenon DEF ArmAdd, Add
  <2>2. now + d \in Nat /\ now + d >= now
    BY <1>a, <2>1, LoopAssumption, SMTT(30) DEF LoopTypeOK
  <2>3. LoopTypeOK'
    BY <1>a, <1>5, <2>1, <2>2 DEF ArmAdd, LoopTypeOK
  <2>4. Woken'
    BY <1>a, <1>5, ZenonT(40) DEF ArmAdd, Woken, LoopTypeOK
  <2>5. ASSUME running', NEW t \in timers'
        PROVE  OnTime(t)'
    <3>1. UNCHANGED <<now, running, wakeups, poll, timeout, until, lag>>
      BY <1>5, Zenon DEF ArmAdd
    <3>2. CASE t \in timers
      BY <1>a, <1>b, <2>4, <2>5, <3>1, <3>2, ZenonT(40) DEF LoopInv, LoopTypeOK, OnTime
    <3>3. CASE t.deadline = now + d
      <4>1. t.deadline + lag >= now /\ t.deadline + MaxLag + lag >= now
        BY <1>a, <2>2, <3>3 DEF LoopTypeOK
      <4>2. poll # "gone"
        BY <2>5, <3>1, Zenon DEF LoopInv
      <4> QED
        BY <2>4, <3>1, <4>1, <4>2, ZenonT(40) DEF OnTime
    <3> QED
      BY <2>1, <2>5, <3>2, <3>3
  <2> QED
    BY <1>5, <2>3, <2>5, Zenon DEF ArmAdd, LoopInv
<1>6. ASSUME NEW c \in Connectors, ArmWake(c)
      PROVE  LoopInv'
  <2>1. wakeups' \in Nat /\ wakeups' > 0
    BY <1>a, <1>6, WakeWakes, Zenon DEF ArmWake
  <2>2. LoopTypeOK' /\ Woken'
    BY <1>a, <1>6, <2>1, ZenonT(40) DEF ArmWake, LoopTypeOK, Woken
  <2> QED
    BY <1>6, <2>2, Zenon DEF ArmWake, LoopInv, OnTime
<1>7. CASE StopAsk
  BY <1>7, ZenonT(40) DEF StopAsk, LoopInv, LoopTypeOK
<1>8. CASE StopWake
  <2>1. wakeups' \in Nat /\ wakeups' > 0
    BY <1>a, <1>8, WakeWakes, Zenon DEF StopWake
  <2>2. LoopTypeOK' /\ Woken'
    BY <1>a, <1>8, <2>1, Zenon DEF StopWake, LoopTypeOK, Woken
  <2> QED
    BY <1>8, <2>2, Zenon DEF StopWake, LoopInv, OnTime
<1>9. CASE StopJoin
  BY <1>9, Zenon DEF StopJoin, LoopInv, LoopTypeOK
<1>10. CASE Tick
  <2>1. LoopTypeOK'
    BY <1>a, <1>10 DEF Tick, LoopTypeOK
  <2>2. ASSUME running', NEW t \in timers'
        PROVE  OnTime(t)'
    <3>1. \A c \in Connectors : arm[c] # "added"
      BY <1>10, Zenon DEF Tick, ClockMayMove
    <3>2. t \in timers /\ OnTime(t) /\ t.deadline \in Nat
      BY <1>b, <1>10, <2>2, Zenon DEF Tick, LoopInv
    <3>3. CASE poll = "wait"
      <4>1. /\ poll' = "wait" /\ now' = now + 1 /\ UNCHANGED <<lag, until>>
            /\ ~(wakeups > 0) /\ ~(now >= until)
        BY <1>10, <3>3, Zenon DEF Tick, MustReturn
      <4>2. ~Woken
        BY <3>1, <4>1, Zenon DEF Woken
      <4>3. now \in Nat /\ until \in Nat /\ lag \in Nat
        BY <1>a DEF LoopTypeOK
      <4>4. until <= t.deadline + lag
        BY <3>2, <3>3, <4>1, <4>2, <4>3, ZenonT(40) DEF OnTime
      <4>5. t.deadline + lag >= now + 1
        BY <3>2, <4>1, <4>3, <4>4
      <4> QED
        BY <4>1, <4>4, <4>5, Zenon DEF OnTime
    <3>4. CASE poll # "wait"
      <4>1. /\ poll \in {"top", "enter", "dispatch"} /\ UNCHANGED <<poll, timeout, until>>
            /\ now' = now + 1 /\ lag' = lag + 1
        BY <1>10, <3>4, Zenon DEF Tick
      <4>2. Woken' <=> Woken
        BY <1>10, Zenon DEF Tick, Woken
      <4>3. now \in Nat /\ timeout \in Nat /\ lag \in Nat
        BY <1>a DEF LoopTypeOK
      <4>4. t.deadline + lag >= now => t.deadline + lag' >= now'
        BY <3>2, <4>1, <4>3
      <4>5. now + timeout <= t.deadline + lag => now' + timeout <= t.deadline + lag'
        BY <3>2, <4>1, <4>3, SMTT(30)
      <4>6. t.deadline + MaxLag + lag >= now => t.deadline + MaxLag + lag' >= now'
        BY <1>a, <3>2, <4>1, <4>3, SMTT(30)
      <4> QED
        BY <3>2, <4>1, <4>2, <4>4, <4>5, <4>6, ZenonT(40) DEF OnTime
    <3> QED
      BY <3>3, <3>4, Zenon
  <2> QED
    BY <1>10, <2>1, <2>2, ZenonT(40) DEF Tick, LoopInv
<1>11. CASE UNCHANGED loopVars
  BY <1>11, Zenon DEF loopVars, LoopInv, LoopTypeOK, OnTime, Woken
<1> QED
  BY <1>1, <1>2, <1>3, <1>4, <1>5, <1>6, <1>7, <1>8, <1>9, <1>10, <1>11, ZenonT(40) DEF LoopNext, Loop

(***************************************************************************)
(* A connect timeout is at most two turns of the loop late, for any number *)
(* of timers, any timeouts, any kMaxPollTimeoutMs and any pipe: a timer    *)
(* armed after NextTimeoutMs has computed the timeout is not slept over.   *)
(***************************************************************************)
THEOREM TimersArePunctual == LoopSpec => []Punctual
<1>1. LoopInv => Punctual
  <2> SUFFICES ASSUME LoopInv, running, NEW t \in timers
               PROVE  t.deadline + 2 * MaxLag >= now
    BY Zenon DEF Punctual
  <2>1. OnTime(t) /\ t.deadline \in Nat /\ now \in Nat /\ lag \in 0 .. MaxLag /\ MaxLag \in Nat
        /\ poll \in {"top", "enter", "wait", "dispatch", "gone"}
    BY LoopAssumption, ZenonT(40) DEF LoopInv, LoopTypeOK
  <2> QED
    BY <2>1 DEF OnTime
<1> QED
  BY <1>1, LoopInitInv, LoopStep, PTL DEF LoopSpec

-----------------------------------------------------------------------------
(* The theorems about slices and codecs, which count. *)

INSTANCE FiniteSetTheorems

LEMMA CountingHolds == Counting
<1>1. \A S \in SUBSET Slots : IsFiniteSet(S)
  BY SlicesAssumption, FS_Subset, ZenonT(40)
<1> QED
  BY <1>1, FS_EmptySet, FS_CardinalityType, FS_AddElement, FS_RemoveElement, ZenonT(40) DEF Counting

(***************************************************************************)
(* Slices that share counted blocks behave like separate sequences of      *)
(* bytes: every operation of Slice is one of SliceValues or changes        *)
(* nothing, every count is the number of the block's users, and the cuts   *)
(* are at the end asked for.  For any number of slices and blocks, any     *)
(* contents and any SLICE_INLINED_SIZE.                                    *)
(***************************************************************************)
THEOREM SlicesAreValues == SlicesInit /\ [][SlicesNext]_sliceVars => ImplementsSliceValues
<1>1. SlicesInit /\ [][SlicesNext]_sliceVars => []SlicesInv
  BY CountingHolds, SlicesInitInv, SlicesStep, PTL
<1>2. SlicesInv => BlocksCounted
  <2> SUFFICES ASSUME SlicesInv PROVE BlocksCounted
    BY ZenonT(40)
  <2>1. \A x \in Slots : slice[x].refs_ # nullptr =>
          slice[x].first + slice[x].length - 1 <= Len(memory[slice[x].refs_])
    BY DEF SlicesInv, SlicesTypeOK, SliceRecords, Fits
  <2> QED
    BY <2>1, ZenonT(40) DEF SlicesInv, BlocksCounted, Users
<1>3. SlicesInv => [\A x \in Slots : \A n \in 1 .. slice[x].length :
                      /\ RemoveHead(x, n) => Values!RemoveHead(x)
                      /\ RemoveTail(x, n) => Values!RemoveTail(x)]_sliceVars
  BY CountingHolds, CutsStep, ZenonT(40)
<1>4. SlicesInit /\ [][SlicesNext]_sliceVars => Values!Spec
  BY <1>1, CountingHolds, SlicesInitInv, SlicesStep, PTL DEF Values!Spec, Shown
<1>5. SlicesInit /\ [][SlicesNext]_sliceVars => CutsAtItsEnd
  BY <1>1, <1>3, PTL DEF CutsAtItsEnd
<1> QED
  BY <1>1, <1>2, <1>4, <1>5, PTL DEF ImplementsSliceValues

(***************************************************************************)
(* A codec that exists has exactly one owner and a deleted one none, in    *)
(* whatever order connx_codec_*, connx_client_options_*, connx_client_new  *)
(* and connx_client_destroy are called and connections end.                *)
(***************************************************************************)
THEOREM CodecsHaveOneOwner == ApiInit /\ [][ApiNext]_apiVars => []CodecOwnedOnce
<1>1. OneOwner => CodecOwnedOnce
  <2> SUFFICES ASSUME OneOwner, NEW k \in Codecs
               PROVE  Cardinality(Owners(k)) = IF codec[k] = "live" THEN 1 ELSE 0
    BY Zenon DEF CodecOwnedOnce
  <2>1. CASE codec[k] = "live"
    BY <2>1, FS_Singleton, ZenonT(40) DEF OneOwner, OwnedOnce
  <2>2. CASE codec[k] # "live"
    BY <2>2, FS_EmptySet, ZenonT(40) DEF OneOwner, OwnedOnce
  <2> QED
    BY <2>1, <2>2, ZenonT(40)
<1> QED
  BY <1>1, ApiInvariance, PTL DEF ApiInv

(***************************************************************************)
(* The handler and the codec that a worker is about to use exist, and so   *)
(* does the local address unless the options that it came from are gone or *)
(* have another: connx_client_destroy before connx_client_handler_destroy  *)
(* is enough, although workers may keep the connection.                    *)
(***************************************************************************)
THEOREM WorkersUseWhatExists == ApiInit /\ [][ApiNext]_apiVars => []NothingFreedIsUsed
<1>1. ApiInv => NothingFreedIsUsed
  <2> SUFFICES ASSUME ApiInv, NEW c \in Clients, connection[c] # NULL,
                      connection[c].work \in {"connect", "connected"}
               PROVE  /\ handler[connection[c].handler] = "live"
                      /\ codec[connection[c].codec] = "live"
                      /\ connection[c].local_address # NULL
                         /\ options[connection[c].made_with] # NULL
                         /\ options[connection[c].made_with].local_address =
                              connection[c].local_address
                           => address[connection[c].local_address] = "live"
    BY Zenon DEF NothingFreedIsUsed
  <2>1. connection[c].codec \in Codecs /\ connection[c].made_with \in Options
    BY ZenonT(40) DEF ApiInv, ApiTypeOK, ConnectionHolds
  <2>2. codec[connection[c].codec] = "live"
    BY <2>1, OwnersAre, TheOwner, SMTT(30) DEF ApiInv
  <2>3. handler[connection[c].handler] = "live"
    BY Zenon DEF ApiInv, HandleInv
  <2> QED
    BY <2>1, <2>2, <2>3, ZenonT(40) DEF ApiInv, AddressInv
<1> QED
  BY <1>1, ApiInvariance, PTL
=============================================================================
