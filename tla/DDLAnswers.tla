---------------------------- MODULE DDLAnswers ----------------------------
(***************************************************************************)
(* The statements that a language model writes (driver/ai_typemapper.go):  *)
(* CREATE TABLE for every driver, DROP TABLE for MySQL.  An answer that    *)
(* looks like such a statement is kept, before it is ever executed, in the *)
(* cache of the process and in a file that the next process loads.         *)
(*                                                                         *)
(* The goroutines of several tables ask one after the other (requestsMu)   *)
(* and save at the same time: each truncates the file, then writes what    *)
(* the cache held when it began.                                           *)
(***************************************************************************)
EXTENDS TargetDatabase

VARIABLES
  cache,             \* cache[key]: the answer for key, or NoAnswer
  cacheFile,         \* what cache was at some save, or Unreadable
  saving             \* saving[key]: what the goroutine of key is writing, or NotSaving

ddlVars == <<cache, cacheFile, saving>>

CacheKeys == Tables \X {"drop", "create"}
NoAnswer == "none"
NoAnswers == [key \in CacheKeys |-> NoAnswer]
Unreadable == [key \in CacheKeys |-> "unreadable"]
NotSaving == [key \in CacheKeys |-> "not saving"]

\* What the statement of an answer does that begins with CREATE TABLE, or holds a DROP:
\* what was asked, a table without its key, something else, or nothing because the
\* database rejects it.
Answers(what) == IF what = "create" THEN {"right", "noKey", "rejected"} ELSE {"right", "other", "rejected"}

\* The model's answer for key passes the check of its first words.
GenerateDDL(key) == \E answer \in Answers(key[2]) : cache' = [cache EXCEPT ![key] = answer]

\* saveCache: the file is truncated, and then written.
SaveBegins(key) ==
  /\ saving' = [saving EXCEPT ![key] = cache]
  /\ cacheFile' = Unreadable
  /\ UNCHANGED cache

\* What another save wrote meanwhile stays behind a shorter text.
SaveEnds(key) ==
  /\ saving[key] # NotSaving
  /\ cacheFile' \in
       IF cacheFile = Unreadable THEN {saving[key], Unreadable}
       ELSE IF \A k \in CacheKeys : cacheFile[k] # NoAnswer => saving[key][k] # NoAnswer
            THEN {saving[key]}
            ELSE {Unreadable}
  /\ saving' = [saving EXCEPT ![key] = NotSaving]
  /\ UNCHANGED cache

\* loadCache of the next process: an unreadable file is worth a warning.
LoadCache ==
  /\ cache' = IF cacheFile = Unreadable THEN NoAnswers ELSE cacheFile
  /\ saving' = [key \in CacheKeys |-> NotSaving]
  /\ UNCHANGED cacheFile

InitAnswers ==
  /\ cache = NoAnswers
  /\ cacheFile = NoAnswers
  /\ saving = [key \in CacheKeys |-> NotSaving]
=============================================================================
