-------------------------------- MODULE Log ---------------------------------
(***************************************************************************)
(* The log sink of src/bridge/log.cc: the callback and its user data are   *)
(* two atomic words that connx_log_set_callback stores, and that connx_log *)
(* loads on any thread, relaxed, so that the two accesses of either side   *)
(* take effect in any order.  connx_log never looks at g_seq, which the    *)
(* setter makes odd while it writes; the model has the word nonetheless.   *)
(*                                                                         *)
(* A setter is under way until its stores are visible to the others.  The  *)
(* application calls connx_log_set_callback from one thread at a time.     *)
(***************************************************************************)
EXTENDS Integers

CONSTANTS LogThreads,      \* threads that log
          LogCallbacks,    \* callbacks of the application
          TRACE, ERROR,    \* the lowest and the highest level
          MaxSets          \* bound on the calls of connx_log_set_callback

VARIABLES g_seq, g_log_function, g_user_data, g_min_level,
          setting,   \* the pair being set and the stores still to be done
          logging    \* the connx_log calls under way, per thread

logVars == <<g_seq, g_log_function, g_user_data, g_min_level, setting, logging>>

NoCallback == "null"
Default == "connx_log_default"

ASSUME LogAssumption ==
  Default \notin LogCallbacks /\ TRACE \in Int /\ ERROR \in Int

\* The user data that the application passes with a callback.
DataOf(fn) == IF fn \in LogCallbacks THEN <<fn>> ELSE <<>>

NotSetting == [fn |-> NoCallback, stores |-> {}]
NotLogging == [at |-> "-", level |-> TRACE, loads |-> {}, fn |-> NoCallback,
               data |-> <<>>, alone |-> TRUE]

LogInit ==
  /\ g_seq = 0 /\ g_min_level = TRACE + 1
  /\ g_log_function = Default /\ g_user_data = <<>>
  /\ setting = NotSetting
  /\ logging = [t \in LogThreads |-> NotLogging]

\* Calls that are under way no longer have the sink to themselves.
Disturb ==
  [t \in LogThreads |-> [logging[t] EXCEPT !.alone = @ /\ logging[t].at = "-"]]

connx_log_set_min_level(level) ==
  /\ g_min_level' = IF level < TRACE THEN TRACE ELSE IF level > ERROR THEN ERROR ELSE level
  /\ logging' = Disturb
  /\ UNCHANGED <<g_seq, g_log_function, g_user_data, setting>>

\* Mutant: the user data is not stored.
SetBeginForgets(fn) ==
  /\ g_seq % 2 = 0 /\ g_seq < 2 * MaxSets
  /\ g_seq' = g_seq + 1
  /\ setting' = [fn |-> fn, stores |-> {"fn"}]
  /\ logging' = Disturb
  /\ UNCHANGED <<g_log_function, g_user_data, g_min_level>>

\* connx_log_set_callback, to the first store of g_seq.
SetBegin(fn) ==
  /\ g_seq % 2 = 0 /\ g_seq < 2 * MaxSets
  /\ g_seq' = g_seq + 1
  /\ setting' = [fn |-> fn, stores |-> {"fn", "data"}]
  /\ logging' = Disturb
  /\ UNCHANGED <<g_log_function, g_user_data, g_min_level>>

SetFunction ==
  /\ "fn" \in setting.stores
  /\ g_log_function' = setting.fn
  /\ setting' = [setting EXCEPT !.stores = @ \ {"fn"}]
  /\ UNCHANGED <<g_seq, g_user_data, g_min_level, logging>>

SetData ==
  /\ "data" \in setting.stores
  /\ g_user_data' = DataOf(setting.fn)
  /\ setting' = [setting EXCEPT !.stores = @ \ {"data"}]
  /\ UNCHANGED <<g_seq, g_log_function, g_min_level, logging>>

\* The release store of g_seq comes after both.
SetEnd ==
  /\ g_seq % 2 = 1 /\ setting.stores = {}
  /\ g_seq' = g_seq + 1 /\ setting' = NotSetting
  /\ UNCHANGED <<g_log_function, g_user_data, g_min_level, logging>>

\* connx_log to the end of formatting, where it may give up.
LogBegin(t, level) ==
  /\ logging[t].at = "-"
  /\ TRACE <= level /\ level <= ERROR
  /\ level >= g_min_level
  /\ logging' = [logging EXCEPT ![t] =
                   [at |-> "load", level |-> level, loads |-> {"fn", "data"},
                    fn |-> NoCallback, data |-> <<>>, alone |-> g_seq % 2 = 0]]
  /\ UNCHANGED <<g_seq, g_log_function, g_user_data, g_min_level, setting>>

LogFunction(t) ==
  /\ "fn" \in logging[t].loads
  /\ logging' = [logging EXCEPT ![t].loads = @ \ {"fn"}, ![t].fn = g_log_function]
  /\ UNCHANGED <<g_seq, g_log_function, g_user_data, g_min_level, setting>>

LogData(t) ==
  /\ "data" \in logging[t].loads
  /\ logging' = [logging EXCEPT ![t].loads = @ \ {"data"}, ![t].data = g_user_data]
  /\ UNCHANGED <<g_seq, g_log_function, g_user_data, g_min_level, setting>>

LogCall(t) ==
  /\ logging[t].at = "load" /\ logging[t].loads = {}
  /\ logging' = [logging EXCEPT ![t] =
                   IF @.fn = NoCallback THEN NotLogging ELSE [@ EXCEPT !.at = "call"]]
  /\ UNCHANGED <<g_seq, g_log_function, g_user_data, g_min_level, setting>>

\* The callback returns and connx_log frees the message.
LogReturn(t) ==
  /\ logging[t].at = "call"
  /\ logging' = [logging EXCEPT ![t] = NotLogging]
  /\ UNCHANGED <<g_seq, g_log_function, g_user_data, g_min_level, setting>>

LogNext ==
  \/ \E level \in TRACE - 1 .. ERROR + 1 : connx_log_set_min_level(level)
  \/ \E fn \in LogCallbacks \cup {NoCallback} : SetBegin(fn)
  \/ SetFunction \/ SetData \/ SetEnd
  \/ \E t \in LogThreads :
       \/ \E level \in TRACE .. ERROR : LogBegin(t, level)
       \/ LogFunction(t) \/ LogData(t) \/ LogCall(t) \/ LogReturn(t)
-----------------------------------------------------------------------------
(***************************************************************************)
(* A callback runs with the user data that was set with it and with a      *)
(* message of a level that is let through, if no call of                   *)
(* connx_log_set_callback or connx_log_set_min_level overlapped the        *)
(* connx_log that calls it.  One that overlaps may be handed the user data *)
(* of another callback, because connx_log does not look at g_seq, and may  *)
(* run after connx_log_set_callback(NULL, NULL) has returned.              *)
(***************************************************************************)
LogCallbackGetsItsData ==
  \A t \in LogThreads : LET l == logging[t] IN
    l.at = "call" /\ l.alone =>
      /\ l.fn = g_log_function /\ l.data = DataOf(l.fn)
      /\ l.level >= g_min_level
=============================================================================
