----------------------------- MODULE Inspector ------------------------------
(***************************************************************************)
(* The Inspector of muduo/net/inspect: the main thread adds commands to    *)
(* and removes them from a map under mutex_, while the thread of the HTTP  *)
(* server answers requests for them, and runs a command's callback with    *)
(* mutex_ held.  One of the commands, ProcessInspector::threads, lists the *)
(* threads of a process whose threads come and go meanwhile.               *)
(*                                                                         *)
(* A path is a sequence of characters, and a name is one of one character. *)
(* Callbacks are numbered as they are added; 0 is an empty std::function.  *)
(***************************************************************************)
EXTENDS Integers, Sequences, FiniteSets, SequencesExt, FiniteSetsExt

CONSTANTS Letters,      \* the characters of names
          Registered,   \* <<module, command>> of the commands that the constructor adds
          ThreadsCmd,   \* the one that is ProcessInspector::threads
          Favicon,      \* "favicon.ico"
          User,         \* the commands that main adds and removes
          Tids,         \* threads that may run in the process, numbers
          MaxPath, MaxAdds, MaxMoves   \* bounds of the model

VARIABLES
  built, started,     \* the constructor has run, and start() in the loop's thread
  modules_, helps_,   \* which command has which callback, and which has a help
  mutex_,             \* "free", or who holds it
  adds,               \* callbacks added so far
  req, resp,          \* the path that is being answered, or <<>>; the last answer
  running,            \* the command and callback that run, or <<>>
  living, moves,      \* the threads of the process, and how often one came or went
  pids, stat, lines,  \* of threads(): those to list, what was read last, what is listed
  threw               \* an assert failed

vars == <<built, started, modules_, helps_, mutex_, adds, req, resp, running, living, moves,
          pids, stat, lines, threw>>

Paths == {<<"/">> \o p : p \in BoundedSeq(Letters \cup {"/"}, MaxPath - 1)}
None == [c \in {} |-> 0]

Init ==
  /\ built = FALSE /\ started = FALSE /\ modules_ = None /\ helps_ = {}
  /\ mutex_ = "free" /\ adds = 0 /\ req = <<>> /\ resp = "none" /\ running = <<>>
  /\ living \in {T \in SUBSET Tids : 1 \in T} /\ moves = 0
  /\ pids = <<>> /\ stat = 0 /\ lines = <<>> /\ threw = FALSE

-----------------------------------------------------------------------------
(* split() *)

lastOf(str, start) == IF start <= Len(str) THEN <<SubSeq(str, start, Len(str))>> ELSE <<>>

split(str) ==
  LET slashes(start) == {p \in start..Len(str) : str[p] = "/"}
      from[start \in 1..(Len(str) + 1)] ==
        IF slashes(start) = {} THEN lastOf(str, start)
        ELSE LET pos == Min(slashes(start))
             IN (IF pos > start THEN <<SubSeq(str, start, pos - 1)>> ELSE <<>>) \o from[pos + 1]
  IN from[1]

-----------------------------------------------------------------------------
(* The main thread *)

Put(f, c, v) == [d \in DOMAIN f \cup {c} |-> IF d = c THEN v ELSE f[d]]

\* The constructor: registerCommands, and start() is left to the loop.
ctor ==
  /\ ~built
  /\ built' = TRUE
  /\ modules_' = [c \in Registered |-> 1] /\ helps_' = Registered /\ adds' = 1
  /\ UNCHANGED <<started, mutex_, req, resp, running, living, moves, pids, stat, lines, threw>>

add(c, empty) ==
  /\ built /\ mutex_ = "free" /\ adds < MaxAdds
  /\ adds' = adds + 1
  /\ modules_' = Put(modules_, c, IF empty THEN 0 ELSE adds + 1)
  /\ helps_' = helps_ \cup {c}
  /\ UNCHANGED <<built, started, mutex_, req, resp, running, living, moves, pids, stat, lines, threw>>

helpsWithout(c) == helps_ \ {c}

remove(c) ==
  /\ built /\ mutex_ = "free" /\ c \in DOMAIN modules_
  /\ modules_' = [d \in DOMAIN modules_ \ {c} |-> modules_[d]]
  /\ helps_' = helpsWithout(c)
  /\ UNCHANGED <<built, started, mutex_, adds, req, resp, running, living, moves, pids, stat, lines,
                 threw>>

-----------------------------------------------------------------------------
(* The loop's thread *)

start ==
  /\ built /\ ~started
  /\ started' = TRUE
  /\ UNCHANGED <<built, modules_, helps_, mutex_, adds, req, resp, running, living, moves, pids, stat,
                 lines, threw>>

request(path) ==
  /\ started /\ req = <<>>
  /\ req' = path /\ resp' = "none"
  /\ UNCHANGED <<built, started, modules_, helps_, mutex_, adds, running, living, moves, pids, stat,
                 lines, threw>>

\* The answers onRequest gives by itself: the list of helps_, the icon, and 404.
Lookup(parts) == <<parts[1][1], parts[2][1]>>
Found(parts) ==
  /\ Len(parts) >= 2 /\ Len(parts[1]) = 1 /\ Len(parts[2]) = 1
  /\ Lookup(parts) \in DOMAIN modules_ /\ modules_[Lookup(parts)] # 0

onRequest ==
  /\ req # <<>> /\ running = <<>> /\ ~threw
  /\ LET parts == split(req) IN
     /\ req = <<"/">> \/ Len(parts) >= 2 => mutex_ = "free"
     /\ ~Found(parts)
     /\ resp' = IF req = <<"/">> THEN "helps"
                ELSE IF parts = <<Favicon>> THEN "favicon" ELSE "404"
  /\ req' = <<>>
  /\ UNCHANGED <<built, started, modules_, helps_, mutex_, adds, running, living, moves, pids, stat,
                 lines, threw>>

\* Slip: the callback is copied and run without the lock.
heldNot == "free"

held == "loop"

\* The callback is called; ProcessInfo::threads() lists the threads, sorted.
onRequestCall ==
  /\ req # <<>> /\ running = <<>> /\ mutex_ = "free" /\ ~threw
  /\ LET parts == split(req) IN
     /\ req # <<"/">> /\ Found(parts)
     /\ running' = <<Lookup(parts), modules_[Lookup(parts)]>>
     /\ IF Lookup(parts) = ThreadsCmd /\ modules_[ThreadsCmd] = 1
        THEN pids' = SetToSortSeq(living, <) /\ lines' = <<>> /\ stat' = 0
        ELSE UNCHANGED <<pids, lines, stat>>
  /\ mutex_' = held
  /\ UNCHANGED <<built, started, modules_, helps_, adds, req, resp, living, moves, threw>>

\* FileUtil::readFile(...) == 0
Read(tid) == tid \in living

\* ProcessInspector::threads: the next of the threads, which may be gone by now; its stat
\* is read into a string that is used for all of them, and gets a 0 in place of the ')'.
nextThread ==
  /\ running # <<>> /\ pids # <<>> /\ ~threw
  /\ LET tid == Head(pids) IN
     /\ stat' = IF tid \in living THEN tid ELSE stat
     /\ IF Read(tid) THEN lines' = Append(lines, [tid |-> tid, stat |-> stat']) /\ threw' = (stat' = 0)
        ELSE UNCHANGED <<lines, threw>>
  /\ pids' = Tail(pids)
  /\ UNCHANGED <<built, started, modules_, helps_, mutex_, adds, req, resp, running, living, moves>>

\* The callback returns, and the guard unlocks.
onRequestReturn ==
  /\ running # <<>> /\ pids = <<>> /\ ~threw
  /\ running' = <<>> /\ mutex_' = "free" /\ req' = <<>> /\ resp' = "200"
  /\ stat' = 0 /\ lines' = <<>>
  /\ UNCHANGED <<built, started, modules_, helps_, adds, living, moves, pids, threw>>

\* Threads of the process start and end; thread 1 is the loop's own.
threadMoves(tid) ==
  /\ tid # 1 /\ moves < MaxMoves
  /\ moves' = moves + 1
  /\ living' = IF tid \in living THEN living \ {tid} ELSE living \cup {tid}
  /\ UNCHANGED <<built, started, modules_, helps_, mutex_, adds, req, resp, running, pids, stat, lines,
                 threw>>

Loop == start \/ onRequest \/ onRequestCall \/ nextThread \/ onRequestReturn
Next ==
  \/ ctor \/ Loop
  \/ \E c \in User : remove(c) \/ \E empty \in BOOLEAN : add(c, empty)
  \/ \E path \in Paths : request(path)
  \/ \E tid \in Tids : threadMoves(tid)

Spec == Init /\ [][Next]_vars
-----------------------------------------------------------------------------
(* Properties *)

\* The types of the members, and of the answers.
TypeOK ==
  /\ {built, started, threw} \subseteq BOOLEAN /\ mutex_ \in {"free", "loop"}
  /\ DOMAIN modules_ \subseteq Registered \cup User /\ living \subseteq Tids
  /\ resp \in {"none", "helps", "favicon", "404", "200"}

\* The list of helps_ names the commands that modules_ has, and no other, however main
\* adds, replaces and removes them (Inspector.cc:93-106).
HelpsMatch == helps_ = DOMAIN modules_

\* After remove() or a replacing add() has returned, the callback that was there does not
\* run, nor does it go on running: its owner may be destroyed (Inspector.cc:98-107, 173-189).
RunsWhatIsThere ==
  running # <<>> => running[1] \in DOMAIN modules_ /\ modules_[running[1]] = running[2]

\* split() yields the names between the slashes, each of them and no empty one, whatever
\* the path (Inspector.cc:34-56, where a comment has it that it "Looks buggy").
SplitRight ==
  LET starts == {i \in DOMAIN req : req[i] # "/" /\ (i > 1 => req[i - 1] = "/")}
      parts == split(req)
  IN /\ Len(parts) = Cardinality(starts)
     /\ FlattenSeq(parts) = SelectSeq(req, LAMBDA c : c # "/")
     /\ \A i \in DOMAIN parts : parts[i] # <<>>

\* A line of the list of threads shows the stat of its own thread, also when threads end
\* between the listing and the reading; and "assert(*rp == ')');" holds
\* (ProcessInspector.cc:218-235).
OwnStat == ~threw /\ \A i \in DOMAIN lines : lines[i].stat = lines[i].tid
=============================================================================
