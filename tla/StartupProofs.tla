-------------------------- MODULE StartupProofs ---------------------------
(* Proofs about Startup for any texts, tables and defaults.                *)
EXTENDS Startup, TLAPS

Beyond == {"INDEX", "BACKLOG", "attach", "server", "serves"}

(* data_preload has come to its end without an error *)
Loaded == stage = "main" /\ MainGoes

(* The settings that have been read where the process is *)
Read ==
  /\ stage \in {"PORT", "SEND_PORT", "TOKEN"} => "URL" \in got
  /\ stage \in {"SEND_PORT", "TOKEN"} => "PORT" \in got
  /\ stage = "TOKEN" => "SEND_PORT" \in got
  /\ (stage \in Lists \union Beyond \/ Loaded) => Required \subseteq got
  /\ "URL" \in got => Parses(text)

(* The tables hold what the text has, and end where it ends *)
ListOver(list) ==
  num[list] < MasterMax => Entry(text, list, num[list]) = "NO_SUCH_MEMBER_ERROR"

Tables ==
  /\ \A list \in Lists : \A n \in 0..num[list] - 1 : Entry(text, list, n) = "NO_ERROR"
  /\ (stage \in {"BLOCK"} \union Beyond \/ Loaded) => ListOver("MASTER")
  /\ (stage \in Beyond \/ Loaded) => ListOver("BLOCK")
  /\ stage \in {"server", "serves"} => attached = num

(* gen.py and the process take turns, and the status tells how it ended *)
Turns ==
  /\ gen \in {"start", "first", "load", "rest", "again"} => stage = "none"
  /\ gen = "waits" /\ stage = "none" =>
       /\ cause \in {"absent", "init", "died"} => rtCode \notin {0, 109, 110}
       /\ cause = "bind" => rtCode = 0
       /\ cause \in {"bind", "returned"} => Required \subseteq got
       /\ cause # "none"

IInv == TypeOK /\ Read /\ Tables /\ Turns
-----------------------------------------------------------------------------
(* What getJsonValue may say; only a text that parses has a value. *)
LEMMA ValueCodes ==
  ASSUME NEW data, NEW kind, NEW good
  PROVE  /\ getJsonValue(data, kind, good) \in
              {"NO_ERROR", "JSON_PARSE_ERROR", "NO_SUCH_MEMBER_ERROR", "MULTIPLE_ERRORS"}
         /\ getJsonValue(data, kind, good) = "NO_ERROR" => Parses(data)
         /\ Parses(data) => getJsonValue(data, kind, good) # "JSON_PARSE_ERROR"
BY DEF getJsonValue

LEMMA FailsNonZero ==
  ASSUME NEW code \in Codes
  PROVE  /\ Value[code] % 256 \in 0..255
         /\ code \notin {"NO_ERROR", "WARNING"} => Value[code] % 256 \notin {0, 109, 110}
         /\ {"NO_ERROR", "WARNING", "INIT_CONFIG", "MULTIPLE_ERRORS", "INIT_CONFIG_ERROR",
             "JSON_PARSE_ERROR", "NO_SUCH_MEMBER_ERROR", "CURL_GLOBAL_INIT_ERROR",
             "PYTHON_INIT_ERROR"} = Codes
<1>1. Codes = {"NO_ERROR", "WARNING", "INIT_CONFIG", "MULTIPLE_ERRORS", "INIT_CONFIG_ERROR",
             "JSON_PARSE_ERROR", "NO_SUCH_MEMBER_ERROR", "CURL_GLOBAL_INIT_ERROR",
             "PYTHON_INIT_ERROR"}
  BY DEF Codes, Value
<1>2. /\ Value["NO_ERROR"] = 0 /\ Value["WARNING"] = -20 /\ Value["INIT_CONFIG"] = 1
      /\ Value["MULTIPLE_ERRORS"] = -3 /\ Value["INIT_CONFIG_ERROR"] = -5
      /\ Value["JSON_PARSE_ERROR"] = -17 /\ Value["NO_SUCH_MEMBER_ERROR"] = -18
      /\ Value["CURL_GLOBAL_INIT_ERROR"] = -19 /\ Value["PYTHON_INIT_ERROR"] = -23
  BY DEF Value
<1>3. \A k \in -23..-1 : k % 256 = k + 256
  OBVIOUS
<1>4. 0 % 256 = 0 /\ 1 % 256 = 1
  OBVIOUS
<1> QED BY <1>1, <1>2, <1>3, <1>4
-----------------------------------------------------------------------------
LEMMA TypeInit == Init => TypeOK
<1> SUFFICES ASSUME Init PROVE TypeOK
  OBVIOUS
<1>1. Nobody \in [Lists -> 0..MasterMax]
  BY StartupAssumption DEF Nobody
<1>2. "NO_ERROR" \in Codes
  BY DEF Codes, Value
<1>3. /\ file \in Text \union {None} /\ default \in Text \union {None} /\ text \in Text
  <2>1. Files \subseteq Text /\ InitConfig \in Text /\ Defaults \subseteq Text \union {None}
    BY StartupAssumption
  <2>2. file \in Files \union {None} /\ default \in Defaults /\ text = InitConfig
    BY DEF Init
  <2> QED BY <2>1, <2>2
<1>4. built \in BOOLEAN
  BY Zenon DEF Init
<1>6. /\ edits \in 0..MaxEdits /\ gen = "start" /\ rtCode \in 0..255 /\ stage = "none" /\ got = {}
      /\ cause \in Causes
  BY StartupAssumption DEF Init, Causes
<1>5. num \in [Lists -> 0..MasterMax] /\ attached \in [Lists -> 0..MasterMax] /\ res \in Codes
  BY <1>1, <1>2 DEF Init
<1> QED BY <1>3, <1>4, <1>5, <1>6 DEF TypeOK

LEMMA InitIInv == Init => IInv
<1> SUFFICES ASSUME Init PROVE IInv
  OBVIOUS
<1>1. TypeOK BY TypeInit
<1>2. Read BY DEF Init, Read, Loaded, Lists, Beyond
<1>3. Tables
  <2>1. \A list \in Lists : num[list] = 0 BY DEF Init, Nobody
  <2> QED BY <2>1 DEF Init, Tables, Loaded, Beyond
<1>4. Turns BY DEF Init, Turns
<1> QED BY <1>1, <1>2, <1>3, <1>4 DEF IInv
-----------------------------------------------------------------------------
LEMMA StepType ==
  ASSUME TypeOK, [Next]_vars
  PROVE  TypeOK'
<1> USE StartupAssumption DEF TypeOK
<1>1. CASE GenStep \/ UserActs
  <2>1. CASE GenStarts BY <2>1 DEF GenStarts, userVars, preload
  <2>2. CASE GenBuilds BY <2>2 DEF GenBuilds, userVars, preload
  <2>3. CASE GenWritesDefault BY <2>3 DEF GenWritesDefault, userVars, preload
  <2>4. CASE GenAsksUser BY <2>4 DEF GenAsksUser, userVars, preload
  <2>5. CASE GenLoads \/ GenTriesAgain
    BY <2>5 DEF GenLoads, GenTriesAgain, Calls, Causes, userVars, preload
  <2>6. CASE GenRefuses \/ GenResumes BY <2>6 DEF GenRefuses, GenResumes, userVars, preload
  <2>7. CASE GenGoes BY <2>7 DEF GenGoes, userVars, preload
  <2>8. CASE UserActs
    <3>1. edits + 1 \in 0..MaxEdits /\ edits' = edits + 1 BY <2>8 DEF UserActs
    <3>2. Files \subseteq Text OBVIOUS
    <3> QED BY <2>8, <3>1, <3>2 DEF UserActs, Causes, preload
  <2> QED BY <1>1, <2>1, <2>2, <2>3, <2>4, <2>5, <2>6, <2>7, <2>8 DEF GenStep
<1>2. Nobody \in [Lists -> 0..MasterMax] BY DEF Nobody
<1>3. \A code \in Codes : Value[code] % 256 \in 0..255 BY FailsNonZero
<1>4. {"NO_ERROR", "WARNING", "INIT_CONFIG", "MULTIPLE_ERRORS", "INIT_CONFIG_ERROR",
       "JSON_PARSE_ERROR", "NO_SUCH_MEMBER_ERROR", "CURL_GLOBAL_INIT_ERROR",
       "PYTHON_INIT_ERROR"} = Codes
  BY DEF Codes, Value
<1>5. CASE InitFails BY <1>2, <1>4, <1>5 DEF InitFails, At, Fresh, userVars
<1>6. CASE WriteConfig BY <1>2, <1>4, <1>6 DEF WriteConfig, At, Fresh, userVars
<1>7. CASE ReadConfig BY <1>2, <1>4, <1>7 DEF ReadConfig, At, Fresh, userVars, Members, Strings
<1>8. ASSUME NEW m \in Required, Setting(m) PROVE TypeOK'
  <2>1. Code(m) \in Codes BY <1>4, ValueCodes DEF Code
  <2>2. m \in Members /\ After(m) \in Members \union Lists
    BY DEF Required, Members, Strings, Numerals, After, Lists
  <2> QED BY <1>8, <2>1, <2>2 DEF Setting, At, userVars
<1>9. ASSUME NEW list \in Lists, NextEntry(list) PROVE TypeOK'
  <2>1. num[list] + 1 \in 0..MasterMax BY <1>9 DEF NextEntry, Room
  <2> QED BY <1>9, <2>1 DEF NextEntry, At, userVars
<1>10. ASSUME NEW list \in Lists, ListEnds(list) PROVE TypeOK'
  BY <1>10 DEF ListEnds, At, userVars, Lists, Members, Strings
<1>11. CASE MessageDies BY <1>11 DEF MessageDies, Ends, Causes, userVars, preload
<1>12. ASSUME NEW m \in {"INDEX", "BACKLOG"}, Optional(m) PROVE TypeOK'
  <2>1. m \in Members /\ After(m) \in Members \union {"main"}
    BY DEF Members, Strings, Numerals, After
  <2> QED BY <1>12, <1>4, <2>1 DEF Optional, At, userVars
<1>13. CASE Main BY <1>13 DEF Main, At, userVars
<1>14. CASE MainFails BY <1>14, <1>3 DEF MainFails, FailStatus, Ends, Causes, At, userVars, preload
<1>15. CASE Attach BY <1>15 DEF Attach, AttachAll, At, userVars
<1>16. CASE BindFails \/ Over BY <1>16 DEF BindFails, Over, Ends, Causes, At, userVars, preload
<1>18. CASE Listens BY <1>18 DEF Listens, At, userVars, preload
<1>17. CASE UNCHANGED vars BY <1>17 DEF vars, userVars, preload
<1> QED BY <1>1, <1>5, <1>6, <1>7, <1>8, <1>9, <1>10, <1>11, <1>12, <1>13, <1>14, <1>15, <1>16,
           <1>17, <1>18 DEF Next, Preload
-----------------------------------------------------------------------------
LEMMA StepRead ==
  ASSUME IInv, [Next]_vars
  PROVE  Read'
<1> USE DEF IInv, Read, Loaded, MainGoes, Lists, Beyond
<1>1. ASSUME UNCHANGED <<stage, text, got>>, stage = "main" => UNCHANGED res PROVE Read'
  BY <1>1
<1>2. CASE GenStep
  <2>1. CASE GenAsksUser BY <2>1 DEF GenAsksUser, preload
  <2>2. CASE GenLoads \/ GenTriesAgain BY <2>2, <1>1 DEF GenLoads, GenTriesAgain, Calls, preload
  <2> QED
    BY <1>1, <1>2, <2>1, <2>2
    DEF GenStep, GenStarts, GenBuilds, GenWritesDefault, GenRefuses, GenGoes, GenResumes, preload
<1>3. CASE UserActs BY <1>1, <1>3 DEF UserActs, preload
<1>4. CASE InitFails BY <1>4 DEF InitFails, At, Fresh
<1>5. CASE WriteConfig BY <1>5 DEF WriteConfig, At, Fresh
<1>6. CASE ReadConfig BY <1>6 DEF ReadConfig, At, Fresh
<1>7. ASSUME NEW m \in Required, Setting(m) PROVE Read'
  <2>1. /\ Code(m) \notin {"WARNING"}
        /\ Code(m) = "NO_ERROR" => Parses(text)
    BY ValueCodes DEF Code
  <2>2. /\ After("URL") = "PORT" /\ After("PORT") = "SEND_PORT" /\ After("SEND_PORT") = "TOKEN"
        /\ After("TOKEN") = "MASTER"
    BY DEF After
  <2> QED BY <1>7, <2>1, <2>2 DEF Setting, At, Required, Parses
<1>8. ASSUME NEW list \in Lists, NextEntry(list) PROVE Read'
  BY <1>8, <1>1 DEF NextEntry, At
<1>9. ASSUME NEW list \in Lists, ListEnds(list) PROVE Read'
  BY <1>9 DEF ListEnds, At
<1>10. CASE MessageDies BY <1>10 DEF MessageDies, Ends, preload
<1>11. ASSUME NEW m \in {"INDEX", "BACKLOG"}, Optional(m) PROVE Read'
  <2>1. After("INDEX") = "BACKLOG" /\ After("BACKLOG") = "main" BY DEF After
  <2> QED BY <1>11, <2>1 DEF Optional, At
<1>12. CASE Main BY <1>12 DEF Main, At
<1>13. CASE MainFails BY <1>13 DEF MainFails, Ends, At, preload
<1>14. CASE Attach BY <1>14 DEF Attach, At
<1>15. CASE BindFails \/ Over BY <1>15 DEF BindFails, Over, Ends, At, preload
<1>17. CASE Listens BY <1>17 DEF Listens, At, preload
<1>16. CASE UNCHANGED vars BY <1>1, <1>16 DEF vars, preload
<1> QED BY <1>2, <1>3, <1>4, <1>5, <1>6, <1>7, <1>8, <1>9, <1>10, <1>11, <1>12, <1>13, <1>14, <1>15,
           <1>16, <1>17 DEF Next, Preload

LEMMA StepTables ==
  ASSUME IInv, [Next]_vars
  PROVE  Tables'
<1> USE DEF IInv, Tables, ListOver, Loaded, MainGoes, Lists, Beyond
<1>1. ASSUME UNCHANGED <<stage, text, num, attached>>, stage = "main" => UNCHANGED res PROVE Tables'
  BY <1>1
<1>0. ASSUME num' = Nobody, attached' = Nobody, stage' \in {"main", "URL"},
             res' \notin {"NO_ERROR", "WARNING"} \/ stage' = "URL"
      PROVE Tables'
  BY <1>0 DEF Nobody
<1>2. CASE GenStep
  <2>1. CASE GenAsksUser BY <2>1 DEF GenAsksUser, preload
  <2>2. CASE GenLoads \/ GenTriesAgain
    <3>1. CASE stage' = "open" BY <2>2, <3>1 DEF GenLoads, GenTriesAgain, Calls, preload
    <3> QED BY <2>2, <3>1, <1>1 DEF GenLoads, GenTriesAgain, Calls, preload
  <2> QED
    BY <1>1, <1>2, <2>1, <2>2
    DEF GenStep, GenStarts, GenBuilds, GenWritesDefault, GenRefuses, GenGoes, GenResumes, preload
<1>3. CASE UserActs BY <1>1, <1>3 DEF UserActs, preload
<1>4. CASE InitFails BY <1>0, <1>4 DEF InitFails, At, Fresh
<1>5. CASE WriteConfig BY <1>0, <1>5 DEF WriteConfig, At, Fresh
<1>6. CASE ReadConfig BY <1>0, <1>6 DEF ReadConfig, At, Fresh
<1>7. ASSUME NEW m \in Required, Setting(m) PROVE Tables'
  <2>1. Code(m) \notin {"WARNING"} BY ValueCodes DEF Code
  <2>2. After(m) \in {"PORT", "SEND_PORT", "TOKEN", "MASTER"} BY DEF After, Required
  <2> QED BY <1>7, <2>1, <2>2 DEF Setting, At
<1>8. ASSUME NEW list \in Lists, NextEntry(list) PROVE Tables'
  <2>1. /\ \A l \in Lists : num[l] \in Nat
        /\ num' = [num EXCEPT ![list] = num[list] + 1] /\ num \in [Lists -> 0..MasterMax]
        /\ UNCHANGED <<stage, text, res, attached>> /\ stage = list
    BY <1>8, StartupAssumption DEF NextEntry, At, TypeOK
  <2>2. /\ num'[list] = num[list] + 1 /\ \A l \in Lists \ {list} : num'[l] = num[l]
    BY <2>1
  <2>3. Entry(text, list, num[list]) = "NO_ERROR" BY <1>8 DEF NextEntry
  <2>4. \A l \in Lists : \A n \in 0..num'[l] - 1 : Entry(text, l, n) = "NO_ERROR"
    <3>1. \A n \in 0..num'[list] - 1 : n \in 0..num[list] - 1 \/ n = num[list] BY <2>1, <2>2
    <3> QED BY <3>1, <2>1, <2>2, <2>3
  <2> QED BY <2>1, <2>2, <2>4
<1>9. ASSUME NEW list \in Lists, ListEnds(list) PROVE Tables'
  <2>1. Parses(text) BY <1>9 DEF ListEnds, At, Read, Required
  <2>2. Room(list) => Entry(text, list, num[list]) = "NO_SUCH_MEMBER_ERROR"
    BY <1>9, <2>1, ValueCodes DEF ListEnds, Entry
  <2> QED BY <1>9, <2>2 DEF ListEnds, At, Room
<1>10. CASE MessageDies BY <1>10 DEF MessageDies, Ends, preload
<1>11. ASSUME NEW m \in {"INDEX", "BACKLOG"}, Optional(m) PROVE Tables'
  <2>1. After("INDEX") = "BACKLOG" /\ After("BACKLOG") = "main" BY DEF After
  <2> QED BY <1>11, <2>1 DEF Optional, At
<1>12. CASE Main BY <1>12 DEF Main, At
<1>13. CASE MainFails BY <1>13 DEF MainFails, Ends, At, preload
<1>14. CASE Attach BY <1>14 DEF Attach, AttachAll, At
<1>15. CASE BindFails \/ Over BY <1>15 DEF BindFails, Over, Ends, At, preload
<1>17. CASE Listens BY <1>17 DEF Listens, At, preload
<1>16. CASE UNCHANGED vars BY <1>1, <1>16 DEF vars, preload
<1> QED BY <1>2, <1>3, <1>4, <1>5, <1>6, <1>7, <1>8, <1>9, <1>10, <1>11, <1>12, <1>13, <1>14, <1>15,
           <1>16, <1>17 DEF Next, Preload

LEMMA StepTurns ==
  ASSUME IInv, [Next]_vars
  PROVE  Turns'
<1> USE DEF IInv, Turns
<1>1. CASE GenStep
  BY <1>1
  DEF GenStep, GenStarts, GenBuilds, GenWritesDefault, GenAsksUser, GenLoads, GenTriesAgain, Calls,
      GenRefuses, GenGoes, GenResumes, preload, userVars
<1>2. CASE UserActs BY <1>2 DEF UserActs, preload
<1>3. ASSUME stage # "none", UNCHANGED gen, stage' # "none" PROVE Turns'
  BY <1>3
<1>4. CASE InitFails BY <1>3, <1>4 DEF InitFails, At
<1>5. CASE WriteConfig BY <1>3, <1>5 DEF WriteConfig, At
<1>6. CASE ReadConfig BY <1>3, <1>6 DEF ReadConfig, At
<1>7. ASSUME NEW m \in Required, Setting(m) PROVE Turns'
  <2>1. After(m) # "none" BY DEF After, Required
  <2> QED BY <1>3, <1>7, <2>1 DEF Setting, At, Required
<1>8. ASSUME NEW list \in Lists, NextEntry(list) PROVE Turns'
  BY <1>3, <1>8 DEF NextEntry, At, Lists
<1>9. ASSUME NEW list \in Lists, ListEnds(list) PROVE Turns'
  BY <1>3, <1>9 DEF ListEnds, At, Lists
<1>10. CASE MessageDies
  <2>1. stage # "none" BY <1>10 DEF MessageDies, NullRead, Lists
  <2> QED BY <1>10, <2>1 DEF MessageDies, Ends, preload
<1>11. ASSUME NEW m \in {"INDEX", "BACKLOG"}, Optional(m) PROVE Turns'
  <2>1. After(m) # "none" BY DEF After
  <2> QED BY <1>3, <1>11, <2>1 DEF Optional, At
<1>12. CASE Main BY <1>3, <1>12 DEF Main, At
<1>13. CASE MainFails
  <2>1. FailStatus \notin {0, 109, 110}
    BY <1>13, FailsNonZero DEF MainFails, MainGoes, FailStatus, TypeOK
  <2> QED BY <1>13, <2>1 DEF MainFails, Ends, At, preload
<1>14. CASE Attach BY <1>3, <1>14 DEF Attach, At
<1>15. CASE BindFails \/ Over
  BY <1>15 DEF BindFails, Over, Ends, At, preload, Read, Beyond
<1>17. CASE Listens BY <1>3, <1>17 DEF Listens, At
<1>16. CASE UNCHANGED vars BY <1>16 DEF vars, preload
<1> QED BY <1>1, <1>2, <1>4, <1>5, <1>6, <1>7, <1>8, <1>9, <1>10, <1>11, <1>12, <1>13, <1>14, <1>15,
           <1>16, <1>17 DEF Next, Preload

LEMMA Inductive == Spec => []IInv
<1>1. ASSUME IInv, [Next]_vars PROVE IInv'
  BY <1>1, StepType, StepRead, StepTables, StepTurns DEF IInv
<1> QED BY InitIInv, <1>1, PTL DEF Spec
-----------------------------------------------------------------------------
(* The types, for any texts and tables: no entry is read beyond a table.    *)
THEOREM TypeCorrect == Spec => []TypeOK
<1>1. IInv => TypeOK BY DEF IInv
<1> QED BY <1>1, Inductive, PTL

(* A bot that serves has its settings, masters and blocked users exactly as *)
(* config.json gives them.                                                  *)
THEOREM ServesItsFile == Spec => []SettingsFromFile
<1>1. IInv => SettingsFromFile
  BY DEF IInv, SettingsFromFile, Read, Tables, ListOver, Beyond, Lists
<1> QED BY <1>1, Inductive, PTL

(* For any texts and tables, every code of global_init, a death and a       *)
(* hakuBot that is not there make gen.py try again: it quits only for a     *)
(* process that came to new_server with its settings read, and sleeps or    *)
(* updates only for one that served.                                        *)
THEOREM FailedInitIsRetried == Spec => InitFailureRetried
<1>1. ASSUME IInv, [Next]_vars
      PROVE  [gen = "waits" /\ gen' # "waits" =>
                /\ cause \in {"absent", "init", "died"} => gen' = "again"
                /\ gen' = "ended" => cause \in {"bind", "returned"} /\ Required \subseteq got
                /\ gen' = "rest" => cause = "returned"]_vars
  <2>1. SUFFICES ASSUME Next, gen = "waits", gen' # "waits"
                 PROVE  /\ cause \in {"absent", "init", "died"} => gen' = "again"
                        /\ gen' = "ended" => cause \in {"bind", "returned"} /\ Required \subseteq got
                        /\ gen' = "rest" => cause = "returned"
    BY <1>1
  <2>2. CASE GenGoes
    <3>1. /\ rtCode = 0 => gen' = "ended"
          /\ rtCode \in {109, 110} => gen' = "rest"
          /\ rtCode \notin {0, 109, 110} => gen' = "again"
          /\ stage = "none"
      BY <2>2 DEF GenGoes
    <3>2. cause \in Causes \ {"none"}
      BY <1>1, <2>1, <3>1 DEF IInv, Turns, TypeOK
    <3> QED BY <1>1, <2>1, <3>1, <3>2 DEF IInv, Turns, Causes
  <2>3. CASE GenStep
    BY <2>1, <2>2, <2>3
    DEF GenStep, GenStarts, GenBuilds, GenWritesDefault, GenAsksUser, GenLoads, GenTriesAgain, Calls,
        GenRefuses, GenResumes
  <2>4. CASE UserActs BY <2>1, <2>4 DEF UserActs
  <2>5. ASSUME UNCHANGED gen PROVE FALSE BY <2>1, <2>5
  <2> QED
    BY <2>1, <2>3, <2>4, <2>5
    DEF Next, Preload, InitFails, WriteConfig, ReadConfig, Setting, NextEntry, ListEnds, MessageDies,
        Optional, Main, MainFails, Attach, BindFails, Listens, Over, At
<1> QED BY <1>1, Inductive, PTL DEF Spec, InitFailureRetried
-----------------------------------------------------------------------------
(* A text in which every member is of its type, once it is being read, is   *)
(* read to its end without an error and without a result that is missing:   *)
(* nothing in data_preload refuses such a config.json (main.c 54-147), so   *)
(* that only the server can still fail.                                     *)
TextServes ==
  (WellTyped(text) /\ (stage = "URL" \/ "URL" \in got)) => MainGoes /\ ~NullRead

LEMMA WellTypedValues ==
  ASSUME TypeOK, WellTyped(text)
  PROVE  /\ \A m \in Required : Code(m) = "NO_ERROR"
         /\ Code("BACKLOG") # "MULTIPLE_ERRORS"
         /\ \A list \in Lists : Entry(text, list, num[list]) # "MULTIPLE_ERRORS"
<1>1. Parses(text)
  BY DEF WellTyped, Loads, Parses
<1>2. \A m \in Required : Code(m) = "NO_ERROR"
  BY <1>1 DEF WellTyped, Required, Code, getJsonValue, Strings, Integers64
<1>3. Code("BACKLOG") # "MULTIPLE_ERRORS"
  BY <1>1 DEF WellTyped, Code, getJsonValue, Strings, Integers64
<1>4. ASSUME NEW list \in Lists PROVE Entry(text, list, num[list]) # "MULTIPLE_ERRORS"
  <2> DEFINE n == num[list]
             kind == IF n < Len(text[list]) THEN text[list][n + 1] ELSE "missing"
  <2>1. n \in Nat /\ Len(text[list]) \in Nat
    BY StartupAssumption DEF TypeOK, Text, Lists
  <2>2. kind \in Integers64 \union {"missing"}
    <3>1. n < Len(text[list]) => n + 1 \in 1..Len(text[list])
      BY <2>1
    <3> QED BY <3>1 DEF WellTyped
  <2> HIDE DEF kind
  <2>3. getJsonValue(text, kind, Integers64) # "MULTIPLE_ERRORS"
    BY <1>1, <2>2 DEF getJsonValue, Integers64
  <2> QED BY <2>3 DEF Entry, kind
<1> QED BY <1>2, <1>3, <1>4

LEMMA StepText ==
  ASSUME IInv, [Next]_vars, (WellTyped(text) /\ (stage = "URL" \/ "URL" \in got)) => MainGoes
  PROVE  ((WellTyped(text) /\ (stage = "URL" \/ "URL" \in got)) => MainGoes)'
<1> USE DEF MainGoes
<1>1. ASSUME UNCHANGED <<text, res, got>>, stage' = "URL" => stage = "URL"
      PROVE  ((WellTyped(text) /\ (stage = "URL" \/ "URL" \in got)) => MainGoes)'
  BY <1>1 DEF WellTyped
<1>2. CASE GenStep \/ UserActs
  BY <1>1, <1>2
  DEF GenStep, GenStarts, GenBuilds, GenWritesDefault, GenAsksUser, GenLoads, GenTriesAgain, Calls,
      GenRefuses, GenGoes, GenResumes, UserActs, preload
<1>3. CASE InitFails \/ WriteConfig
  BY <1>3 DEF InitFails, WriteConfig, At, Fresh
<1>4. CASE ReadConfig
  BY <1>4 DEF ReadConfig
<1>5. ASSUME NEW m \in Required, Setting(m), WellTyped(text)', stage' = "URL" \/ "URL" \in got'
      PROVE  MainGoes'
  <2>1. WellTyped(text) /\ TypeOK
    BY <1>5 DEF Setting, WellTyped, IInv
  <2>2. Code(m) = "NO_ERROR"
    BY <2>1, WellTypedValues
  <2> QED BY <1>5, <2>2 DEF Setting
<1>6. ASSUME NEW list \in Lists, NextEntry(list) \/ ListEnds(list)
      PROVE  ((WellTyped(text) /\ (stage = "URL" \/ "URL" \in got)) => MainGoes)'
  BY <1>1, <1>6 DEF NextEntry, ListEnds, At, Lists
<1>7. CASE MessageDies \/ Main \/ MainFails \/ Attach \/ BindFails \/ Listens \/ Over
  BY <1>1, <1>7 DEF MessageDies, Main, MainFails, Attach, BindFails, Listens, Over, Ends, At, preload
<1>8. ASSUME NEW m \in {"INDEX", "BACKLOG"}, Optional(m) PROVE MainGoes'
  BY <1>8 DEF Optional
<1>9. CASE UNCHANGED vars
  BY <1>1, <1>9 DEF vars, preload
<1> QED BY <1>2, <1>3, <1>4, <1>5, <1>6, <1>7, <1>8, <1>9 DEF Next, Preload

(* The safety half of ServesInTheEnd, for every text and size of table.     *)
THEOREM WellTypedIsRead == Spec => []TextServes
<1> DEFINE Goes == (WellTyped(text) /\ (stage = "URL" \/ "URL" \in got)) => MainGoes
<1>1. Init => Goes
  BY DEF Init
<1>2. IInv /\ Goes /\ [Next]_vars => Goes'
  BY StepText
<1>3. IInv /\ Goes => TextServes
  BY WellTypedValues DEF IInv, TextServes, NullRead
<1> QED BY <1>1, <1>2, <1>3, Inductive, PTL DEF Spec
-----------------------------------------------------------------------------
(* The steps a process still has to make until it serves and is over        *)
StepsLeft(s, m, b) ==
  CASE s = "none" -> 0 [] s = "serves" -> 1 [] s = "server" -> 2 [] s = "attach" -> 3
    [] s = "main" -> 4 [] s = "BACKLOG" -> 5 [] s = "INDEX" -> 6
    [] s = "BLOCK" -> 7 + (MasterMax - b) [] s = "MASTER" -> 8 + MasterMax + (MasterMax - m)
    [] s = "TOKEN" -> 9 + 2 * MasterMax [] s = "SEND_PORT" -> 10 + 2 * MasterMax
    [] s = "PORT" -> 11 + 2 * MasterMax [] s = "URL" -> 12 + 2 * MasterMax
    [] s = "open" -> 13 + 2 * MasterMax

PreloadLeft == StepsLeft(stage, num["MASTER"], num["BLOCK"])

(* A process that was started goes from its config.json to serving, or to   *)
(* its end, in a number of steps that only the size of its tables bounds:   *)
(* what gen.py and the user do meanwhile takes it back nowhere, and no list *)
(* is read for ever (main.c 20-222, server.c 123-166).                                        *)
PreloadFits == PreloadLeft \in 0..13 + 2 * MasterMax
PreloadShrinks ==
  [][(stage # "none") =>
       /\ PreloadLeft' <= PreloadLeft
       /\ Preload \/ InitFails \/ Over => PreloadLeft' < PreloadLeft]_vars

LEMMA LeftAt ==
  ASSUME NEW m, NEW b
  PROVE  /\ StepsLeft("none", m, b) = 0 /\ StepsLeft("serves", m, b) = 1
         /\ StepsLeft("server", m, b) = 2
         /\ StepsLeft("attach", m, b) = 3 /\ StepsLeft("main", m, b) = 4
         /\ StepsLeft("BACKLOG", m, b) = 5 /\ StepsLeft("INDEX", m, b) = 6
         /\ StepsLeft("BLOCK", m, b) = 7 + (MasterMax - b)
         /\ StepsLeft("MASTER", m, b) = 8 + MasterMax + (MasterMax - m)
         /\ StepsLeft("TOKEN", m, b) = 9 + 2 * MasterMax
         /\ StepsLeft("SEND_PORT", m, b) = 10 + 2 * MasterMax
         /\ StepsLeft("PORT", m, b) = 11 + 2 * MasterMax
         /\ StepsLeft("URL", m, b) = 12 + 2 * MasterMax
         /\ StepsLeft("open", m, b) = 13 + 2 * MasterMax
  BY DEF StepsLeft

Places == {"none", "open", "main", "attach", "server", "serves", "URL", "TOKEN", "INDEX", "PORT", "SEND_PORT",
           "BACKLOG", "MASTER", "BLOCK"}

LEMMA LeftRange ==
  ASSUME NEW m \in 0..MasterMax, NEW b \in 0..MasterMax, NEW s \in Places
  PROVE  StepsLeft(s, m, b) \in 0..13 + 2 * MasterMax /\ (s # "none" => StepsLeft(s, m, b) # 0)
<1>1. MasterMax \in Nat \ {0}
  BY StartupAssumption
<1> QED BY <1>1, LeftAt DEF Places

LEMMA ProcessSteps ==
  ASSUME IInv, stage # "none", Preload \/ InitFails \/ Over
  PROVE  PreloadLeft' < PreloadLeft
<1>1. /\ MasterMax \in Nat \ {0} /\ num["MASTER"] \in 0..MasterMax /\ num["BLOCK"] \in 0..MasterMax
      /\ "MASTER" \in Lists /\ "BLOCK" \in Lists /\ num \in [Lists -> 0..MasterMax]
      /\ stage \in Places
  BY StartupAssumption DEF IInv, TypeOK, Lists, Members, Strings, Numerals, Places
<1>2. ASSUME stage' = "none" PROVE PreloadLeft' < PreloadLeft
  <2>1. PreloadLeft' = 0
    BY <1>2, LeftAt DEF PreloadLeft
  <2>2. PreloadLeft \in 0..13 + 2 * MasterMax /\ PreloadLeft # 0
    BY <1>1, LeftRange DEF PreloadLeft
  <2> QED BY <1>1, <2>1, <2>2
<1>3. CASE MessageDies \/ MainFails \/ BindFails \/ Over
  BY <1>2, <1>3 DEF MessageDies, MainFails, BindFails, Over, Ends
<1>4. CASE InitFails \/ WriteConfig \/ ReadConfig
  BY <1>1, <1>4, LeftAt DEF InitFails, WriteConfig, ReadConfig, At, PreloadLeft
<1>5. ASSUME NEW m \in Required, Setting(m) PROVE PreloadLeft' < PreloadLeft
  <2>1. /\ After("URL") = "PORT" /\ After("PORT") = "SEND_PORT" /\ After("SEND_PORT") = "TOKEN"
        /\ After("TOKEN") = "MASTER"
    BY DEF After
  <2>2. stage = m /\ stage' \in {After(m), "main"} /\ num' = num
    BY <1>5 DEF Setting, At
  <2> QED BY <1>1, <2>1, <2>2, LeftAt DEF Required, PreloadLeft
<1>6. ASSUME NEW list \in Lists, NextEntry(list) PROVE PreloadLeft' < PreloadLeft
  <2>1. stage = list /\ stage' = list /\ num' = [num EXCEPT ![list] = @ + 1]
    BY <1>6 DEF NextEntry, At
  <2>2. CASE list = "MASTER"
    <3>1. num'["MASTER"] = num["MASTER"] + 1
      BY <1>1, <2>1, <2>2
    <3> QED BY <1>1, <2>1, <2>2, <3>1, LeftAt DEF PreloadLeft
  <2>3. CASE list = "BLOCK"
    <3>1. num'["BLOCK"] = num["BLOCK"] + 1
      BY <1>1, <2>1, <2>3
    <3> QED BY <1>1, <2>1, <2>3, <3>1, LeftAt DEF PreloadLeft
  <2> QED BY <2>2, <2>3 DEF Lists
<1>7. ASSUME NEW list \in Lists, ListEnds(list) PROVE PreloadLeft' < PreloadLeft
  BY <1>1, <1>7, LeftAt DEF ListEnds, At, Lists, PreloadLeft
<1>8. ASSUME NEW m \in {"INDEX", "BACKLOG"}, Optional(m) PROVE PreloadLeft' < PreloadLeft
  <2>1. After("INDEX") = "BACKLOG" /\ After("BACKLOG") = "main"
    BY DEF After
  <2> QED BY <1>8, <2>1, LeftAt DEF Optional, At, PreloadLeft
<1>9. CASE Main \/ Attach \/ Listens
  BY <1>9, LeftAt DEF Main, Attach, Listens, At, preload, PreloadLeft
<1> QED BY <1>3, <1>4, <1>5, <1>6, <1>7, <1>8, <1>9 DEF Preload

(* The argument under ServesInTheEnd, for every text and size of table.     *)
THEOREM StartRunsDown == Spec => []PreloadFits /\ PreloadShrinks
<1>0. MasterMax \in Nat
  BY StartupAssumption
<1>1. IInv => PreloadFits
  <2> SUFFICES ASSUME IInv PROVE PreloadFits
    OBVIOUS
  <2>1. num["MASTER"] \in 0..MasterMax /\ num["BLOCK"] \in 0..MasterMax /\ stage \in Places
    BY DEF IInv, TypeOK, Lists, Members, Strings, Numerals, Places
  <2> QED BY <2>1, LeftRange DEF PreloadFits, PreloadLeft
<1>2. ASSUME IInv, [Next]_vars, stage # "none"
      PROVE  /\ PreloadLeft' <= PreloadLeft
             /\ Preload \/ InitFails \/ Over => PreloadLeft' < PreloadLeft
  <2>1. PreloadLeft \in Int /\ PreloadLeft' \in Int
    <3>1. num["MASTER"] \in 0..MasterMax /\ num["BLOCK"] \in 0..MasterMax /\ stage \in Places
      BY <1>2 DEF IInv, TypeOK, Lists, Members, Strings, Numerals, Places
    <3>2. /\ num'["MASTER"] \in 0..MasterMax /\ num'["BLOCK"] \in 0..MasterMax /\ stage' \in Places
      BY <1>2, StepType DEF IInv, TypeOK, Lists, Members, Strings, Numerals, Places
    <3>3. PreloadLeft \in 0..13 + 2 * MasterMax
      BY <3>1, LeftRange DEF PreloadLeft
    <3>4. PreloadLeft' \in 0..13 + 2 * MasterMax
      BY <3>2, LeftRange DEF PreloadLeft
    <3> QED BY <1>0, <3>3, <3>4
  <2>2. CASE GenStep \/ UserActs \/ UNCHANGED vars
    <3>1. stage' = stage /\ num' = num
      BY <1>2, <2>2
      DEF GenStep, GenStarts, GenBuilds, GenWritesDefault, GenAsksUser, GenLoads, GenTriesAgain,
          Calls, GenRefuses, GenGoes, GenResumes, UserActs, preload, vars, IInv, Turns
    <3>2. PreloadLeft' = PreloadLeft
      BY <3>1 DEF PreloadLeft
    <3> QED BY <1>2, <2>1, <3>2, ProcessSteps
  <2> QED BY <1>2, <2>1, <2>2, ProcessSteps DEF Next
<1>3. IInv /\ [Next]_vars => ((stage # "none") =>
         /\ PreloadLeft' <= PreloadLeft
         /\ Preload \/ InitFails \/ Over => PreloadLeft' < PreloadLeft)
  BY <1>2
<1> QED BY <1>1, <1>3, Inductive, PTL DEF Spec, PreloadShrinks
===========================================================================
