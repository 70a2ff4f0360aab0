------------------------------- MODULE Logger -------------------------------
(***************************************************************************)
(* The loggers of log.h and log.cpp: Logger, LogAppender, LoggerManager    *)
(* and the listener of the configuration variable "logs" that rebuilds the *)
(* loggers when the variable changes.                                      *)
(*                                                                         *)
(* A thread executes one call at a time; the listener is a sequence of     *)
(* calls that other threads' calls come between.  A critical section of an *)
(* appender's lock takes no other lock and is one step; a section of a     *)
(* logger's lock that reaches into appenders or other loggers is several.  *)
(* Levels are left out: Logger::Log and the appenders never read level_.   *)
(***************************************************************************)
EXTENDS Naturals, FiniteSets, SequencesExt

CONSTANTS
  Threads,
  Names,        \* the loggers, in the order of their names
  Root,         \* the name of the root logger
  OwnAppenders, \* appenders that the client creates and keeps pointers to
  NewAppenders, \* room for the appenders that the manager and the listener create
  Formats,      \* the valid patterns and their formatters
  Bad,          \* a pattern that does not parse (LogFormatter::IsError)
  Files,        \* file names
  Default,      \* the formatter of a new logger
  Profiles,     \* what clients may do: the operations they use, the YAML documents
                \* that "logs" may be loaded from, the promises they keep
  MaxCalls,     \* bound: calls of clients, reloads included
  NULL

(*  "root kept"        the root logger keeps its appenders: no client      *)
(*                     takes them away and no configuration mentions it    *)
(*  "configured first" an appender's SetFormatter is called only while no  *)
(*                     logger has it or is about to get it                 *)
(*  "attached once"    an appender is given to one logger, once            *)
AllDuties == {"root kept", "configured first", "attached once"}

Appenders == OwnAppenders \cup NewAppenders
AllOps    == {"log", "get", "yaml", "add", "del", "clear", "format", "own", "reload"}
Loggers   == ToSet(Names)

Patterns  == Formats \cup {Bad}

(* A document defines some of the loggers: each has a pattern or none and  *)
(* a list of appenders with a type, a file name and a pattern.             *)
YamlAppender == [type : {"file", "stdout", "other"}, file : Files \cup {NULL},
                 formatter : Patterns \cup {NULL}]
YamlLogger   == [formatter : Patterns \cup {NULL}, appenders : Seq(YamlAppender)]

ASSUME LoggerAssumption ==
  /\ Names \in Seq(Loggers) /\ Root \in Loggers /\ Default \in Formats /\ MaxCalls \in Nat
  /\ OwnAppenders \cap NewAppenders = {} /\ NewAppenders # {}
  /\ NULL \notin Threads \cup Loggers \cup Appenders \cup Patterns \cup Files
  /\ Bad \notin Formats
  /\ \A p \in Profiles :
       /\ p.ops \subseteq AllOps /\ p.duties \subseteq AllDuties
       /\ \A c \in p.configs : DOMAIN c \subseteq Loggers /\ \A g \in DOMAIN c : c[g] \in YamlLogger

VARIABLES
  profile,        \* what the clients of this behaviour do and promise; never changes
  loggers_,       \* the loggers that exist
  appenders_,     \* per logger: its appenders
  formatter_,     \* per logger: its formatter
  mutex_,         \* per logger: the thread that holds its spin lock
  fmt_,           \* per appender: its formatter_
  has_formatter_, \* per appender
  own,            \* per appender: the last formatter given to SetFormatter
  filename_,      \* per appender: the file of a FileLogAppender
  mgr,            \* the thread that holds the manager's spin lock
  pc,
  op,             \* per thread: the arguments and locals of the call it executes
  reload,         \* the SetValue of "logs" under way: its thread, the new document, the
                  \* loggers to come; the logger, the call and the appender that come next
  doc,            \* the document whose conversion is the value of "logs"
  calls,
  fault           \* what ended the process, "none" while it runs

vars == <<profile, loggers_, appenders_, formatter_, mutex_, fmt_, has_formatter_, own, filename_, mgr, pc, op,
          reload, doc, calls, fault>>

appenderVars == <<fmt_, has_formatter_, own, filename_>>
callVars     == <<reload, doc, calls, fault>>

(* The program's call c of operation o: on a logger, with an appender,     *)
(* with a formatter or with a configuration.                               *)
Call(o, g, x) == [op |-> o, log |-> g, arg |-> x]

NoOp == [log |-> NULL, at |-> NULL, todo |-> <<>>, app |-> NULL, need |-> FALSE, hits |-> 0]

NoReload == [by |-> NULL, to |-> <<>>, left |-> {}, log |-> NULL, next |-> "none", n |-> 1]

First == CHOOSE a \in NewAppenders : TRUE

(* The type invariant.                                                     *)
TypeOK ==
  /\ profile \in Profiles
  /\ loggers_ \subseteq Loggers
  /\ \A g \in Loggers : appenders_[g] \in Seq(Appenders)
  /\ formatter_ \in [Loggers -> Formats]
  /\ mutex_ \in [Loggers -> Threads \cup {NULL}]
  /\ fmt_ \in [Appenders -> Formats \cup {NULL}]
  /\ has_formatter_ \in [Appenders -> BOOLEAN]
  /\ own \in [Appenders -> Formats \cup {NULL}]
  /\ mgr \in Threads \cup {NULL}
  /\ pc \in [Threads -> {"idle", "log", "root", "attach", "inherit", "inheritwrite", "yaml"}]
  /\ filename_ \in [Appenders -> Files \cup Patterns \cup {NULL}]
  /\ doc \in profile.configs \cup {<<>>}
  /\ calls \in 0..MaxCalls
  /\ fault \in {"none", "null root", "null formatter"}

(* LoggerManager(): the root logger with one StdoutLogAppender.            *)
Init ==
  /\ profile \in Profiles
  /\ loggers_ = {Root}
  /\ appenders_ = [g \in Loggers |-> IF g = Root THEN <<First>> ELSE <<>>]
  /\ formatter_ = [g \in Loggers |-> Default]
  /\ mutex_ = [g \in Loggers |-> NULL]
  /\ fmt_ = [a \in Appenders |-> IF a = First THEN Default ELSE NULL]
  /\ has_formatter_ = [a \in Appenders |-> FALSE]
  /\ own = [a \in Appenders |-> NULL]
  /\ mgr = NULL
  /\ pc = [t \in Threads |-> "idle"]
  /\ op = [t \in Threads |-> NoOp]
  /\ reload = NoReload
  /\ filename_ = [a \in Appenders |-> NULL]
  /\ doc = <<>>
  /\ calls = 0
  /\ fault = "none"

-----------------------------------------------------------------------------
Attached(a) == \E g \in Loggers : a \in ToSet(appenders_[g])
Coming(a)   == \E t \in Threads : op[t].app = a
Unused      == {a \in NewAppenders : ~Attached(a) /\ ~Coming(a)}

RootKept(g)        == "root kept" \in profile.duties => g # Root
ConfiguredFirst(a) == "configured first" \in profile.duties => ~Attached(a) /\ ~Coming(a)
AttachedOnce(a)    == "attached once" \in profile.duties => ~Attached(a) /\ ~Coming(a) /\ fmt_[a] = own[a]

NoMutex(g) == TRUE

(* The spin lock of logger g can be taken.                                 *)
Free(g) == mutex_[g] = NULL

Lock(t, g) == mutex_' = [mutex_ EXCEPT ![g] = t]

NeverUnlock(t) == mutex_' = mutex_

(* The scoped locks of thread t are released.                              *)
Unlock(t) == mutex_' = [g \in Loggers |-> IF mutex_[g] = t THEN NULL ELSE mutex_[g]]

Goto(t, l) == pc' = [pc EXCEPT ![t] = l]
Return(t)  == Goto(t, "idle") /\ op' = [op EXCEPT ![t] = NoOp]

(* The process dies; the rest of the state no longer matters.              *)
Abort(why) ==
  /\ fault' = why
  /\ UNCHANGED <<loggers_, appenders_, formatter_, mutex_, appenderVars, mgr, pc, op,
                 reload, doc, calls>>

-----------------------------------------------------------------------------
(* Logger::Log takes the logger's lock and keeps it to the end.            *)
Log(t, g) ==
  /\ Free(g)
  /\ Lock(t, g)
  /\ Goto(t, IF appenders_[g] = <<>> THEN "root" ELSE "log")
  /\ op' = [op EXCEPT ![t] = [NoOp EXCEPT !.log = g, !.at = g, !.todo = appenders_[g]]]
  /\ UNCHANGED <<loggers_, appenders_, formatter_, appenderVars, mgr>>

(* A logger without appenders asks root_; the root logger has no root_.    *)
LogRoot(t) ==
  /\ pc[t] = "root" /\ fault = "none"
  /\ \/ /\ op[t].at # Root /\ Free(Root)
        /\ Lock(t, Root)
        /\ Goto(t, IF appenders_[Root] = <<>> THEN "root" ELSE "log")
        /\ op' = [op EXCEPT ![t].at = Root, ![t].todo = appenders_[Root]]
        /\ UNCHANGED <<loggers_, appenders_, formatter_, appenderVars, mgr, callVars>>
     \/ /\ op[t].at = Root
        /\ Abort("null root")

(* One appender formats and writes the event, under its own lock.          *)
Emit(t) ==
  /\ pc[t] = "log" /\ op[t].todo # <<>> /\ fault = "none"
  /\ op' = [op EXCEPT ![t].todo = Tail(@), ![t].hits = @ + 1]
  /\ fault' = IF fmt_[Head(op[t].todo)] = NULL THEN "null formatter" ELSE fault
  /\ UNCHANGED <<loggers_, appenders_, formatter_, mutex_, appenderVars, mgr, pc, reload, doc, calls>>

EndLog(t) ==
  /\ pc[t] = "log" /\ op[t].todo = <<>> /\ fault = "none"
  /\ Unlock(t) /\ Return(t)
  /\ UNCHANGED <<loggers_, appenders_, formatter_, appenderVars, mgr, callVars>>

-----------------------------------------------------------------------------
(* Logger::AddAppender up to the test of the appender's formatter f.       *)
AddAppender(t, g, a, f) ==
  /\ Free(g)
  /\ Lock(t, g)
  /\ Goto(t, "attach")
  /\ fmt_' = [fmt_ EXCEPT ![a] = f]
  /\ op' = [op EXCEPT ![t] = [NoOp EXCEPT !.log = g, !.app = a, !.need = (f = NULL)]]
  /\ UNCHANGED <<loggers_, appenders_, formatter_, mgr>>

AddOwn(t, g, a) ==
  /\ AddAppender(t, g, a, fmt_[a])
  /\ UNCHANGED <<has_formatter_, own, filename_>>

(* The listener makes an appender of definition d and adds it.             *)
AddNew(t, g, d) ==
  LET f == IF d.formatter \in Formats THEN d.formatter ELSE NULL IN
  \E a \in Unused :
    /\ AddAppender(t, g, a, f)
    /\ has_formatter_' = [has_formatter_ EXCEPT ![a] = (f # NULL)]
    /\ own' = [own EXCEPT ![a] = f]
    /\ filename_' = [filename_ EXCEPT ![a] = IF d.type = "file" THEN d.file ELSE NULL]

NotInherited(t) == fmt_

(* An appender that had no formatter gets the logger's.                    *)
FmtOnAttach(t) == IF op[t].need THEN [fmt_ EXCEPT ![op[t].app] = formatter_[op[t].log]] ELSE fmt_

(* The rest of AddAppender.                                                *)
Attach(t) ==
  /\ pc[t] = "attach" /\ fault = "none"
  /\ fmt_' = FmtOnAttach(t)
  /\ appenders_' = [appenders_ EXCEPT ![op[t].log] = Append(@, op[t].app)]
  /\ Unlock(t) /\ Return(t)
  /\ UNCHANGED <<loggers_, formatter_, has_formatter_, own, filename_, mgr, callVars>>

DelAppender(t, g, a) ==
  /\ Free(g)
  /\ appenders_' = [appenders_ EXCEPT ![g] = RemoveFirst(@, a)]
  /\ UNCHANGED <<loggers_, formatter_, mutex_, appenderVars, mgr, pc, op>>

ClearAppender(t, g) ==
  /\ Free(g)
  /\ appenders_' = [appenders_ EXCEPT ![g] = <<>>]
  /\ UNCHANGED <<loggers_, formatter_, mutex_, appenderVars, mgr, pc, op>>

AnyPattern(f) == TRUE

(* The pattern has no error.                                               *)
Accepted(f) == f \in Formats

(* Logger::SetFormatter of a pattern: one with an error is refused.        *)
SetFormatter(t, g, f) ==
  \/ /\ Accepted(f) /\ Free(g)
     /\ Lock(t, g)
     /\ formatter_' = [formatter_ EXCEPT ![g] = f]
     /\ Goto(t, "inherit")
     /\ op' = [op EXCEPT ![t] = [NoOp EXCEPT !.log = g, !.todo = appenders_[g]]]
     /\ UNCHANGED <<loggers_, appenders_, appenderVars, mgr>>
  \/ /\ ~Accepted(f)
     /\ UNCHANGED <<loggers_, appenders_, formatter_, mutex_, appenderVars, mgr, pc, op>>

EveryAppender(a) == TRUE
NobodyInherits(a) == FALSE

(* The appenders whose formatter SetFormatter replaces.                    *)
Inherits(a) == ~has_formatter_[a]

(* Its loop over the appenders: the test and the write, which are not      *)
(* under the appender's lock.                                              *)
InheritTest(t) ==
  /\ pc[t] = "inherit" /\ op[t].todo # <<>> /\ fault = "none"
  /\ \/ /\ Inherits(Head(op[t].todo))
        /\ Goto(t, "inheritwrite") /\ UNCHANGED op
     \/ /\ ~Inherits(Head(op[t].todo))
        /\ op' = [op EXCEPT ![t].todo = Tail(@)] /\ UNCHANGED pc
  /\ UNCHANGED <<loggers_, appenders_, formatter_, mutex_, appenderVars, mgr, callVars>>

InheritWrite(t) ==
  /\ pc[t] = "inheritwrite" /\ fault = "none"
  /\ fmt_' = [fmt_ EXCEPT ![Head(op[t].todo)] = formatter_[op[t].log]]
  /\ op' = [op EXCEPT ![t].todo = Tail(@)]
  /\ Goto(t, "inherit")
  /\ UNCHANGED <<loggers_, appenders_, formatter_, mutex_, has_formatter_, own, filename_, mgr, callVars>>

InheritEnd(t) ==
  /\ pc[t] = "inherit" /\ op[t].todo = <<>> /\ fault = "none"
  /\ Unlock(t) /\ Return(t)
  /\ UNCHANGED <<loggers_, appenders_, formatter_, appenderVars, mgr, callVars>>

(* LogAppender::SetFormatter, with nullptr too, under the appender's lock. *)
SetOwnFormatter(t, a, f) ==
  /\ fmt_' = [fmt_ EXCEPT ![a] = f]
  /\ has_formatter_' = [has_formatter_ EXCEPT ![a] = (f # NULL)]
  /\ own' = [own EXCEPT ![a] = f]
  /\ UNCHANGED <<loggers_, appenders_, formatter_, mutex_, filename_, mgr, pc, op>>

-----------------------------------------------------------------------------
(* LoggerManager::GetLogger creates what it does not find.                 *)
GetLogger(t, g) ==
  /\ mgr = NULL
  /\ loggers_' = loggers_ \cup {g}
  /\ UNCHANGED <<appenders_, formatter_, mutex_, appenderVars, mgr, pc, op>>

(* LoggerManager::ToYamlString holds the manager's lock while it takes and *)
(* releases the lock of every logger that exists.                          *)
ToYamlString(t) ==
  /\ mgr = NULL
  /\ mgr' = t
  /\ Goto(t, "yaml")
  /\ op' = [op EXCEPT ![t] = [NoOp EXCEPT !.todo = Names]]
  /\ UNCHANGED <<loggers_, appenders_, formatter_, mutex_, appenderVars>>

YamlNext(t) ==
  /\ pc[t] = "yaml" /\ op[t].todo # <<>> /\ fault = "none"
  /\ Head(op[t].todo) \in loggers_ => Free(Head(op[t].todo))
  /\ op' = [op EXCEPT ![t].todo = Tail(@)]
  /\ UNCHANGED <<loggers_, appenders_, formatter_, mutex_, appenderVars, mgr, pc, callVars>>

YamlEnd(t) ==
  /\ pc[t] = "yaml" /\ op[t].todo = <<>> /\ fault = "none"
  /\ mgr' = NULL
  /\ Return(t)
  /\ UNCHANGED <<loggers_, appenders_, formatter_, mutex_, appenderVars, callVars>>

-----------------------------------------------------------------------------
(* The conversion of an appender of a document to a LogAppenderDefine: its *)
(* pattern goes to the member file, the member formatter stays empty.      *)
Converted(a) ==
  [type |-> a.type,
   file |-> IF a.formatter # NULL THEN a.formatter ELSE IF a.type = "file" THEN a.file ELSE NULL,
   formatter |-> NULL]

(* Appenders of unknown type and files without a name are skipped.         *)
Complete(a) == a.type = "stdout" \/ (a.type = "file" /\ a.file # NULL)

LogDefine(d) ==
  [formatter |-> d.formatter,
   appenders |-> FlattenSeq([i \in DOMAIN d.appenders |->
     IF Complete(d.appenders[i]) THEN <<Converted(d.appenders[i])>> ELSE <<>>])]

(* The value of "logs" that document c converts to.                        *)
Logs(c) == [g \in DOMAIN c |-> LogDefine(c[g])]

(* The loggers whose definition is new or has changed, and those whose     *)
(* definition is gone.                                                     *)
Changed(from, to) ==
  {g \in DOMAIN to : g \in DOMAIN from => LogDefine(from[g]) # LogDefine(to[g])}
Gone(from, to) == DOMAIN from \ DOMAIN to

(* The listener goes through the new definitions, then through the old     *)
(* ones, both sets in the order of the names.                              *)
Before(g, h) ==
  IF g \in DOMAIN reload.to <=> h \in DOMAIN reload.to
  THEN \E i, j \in DOMAIN Names : i <= j /\ Names[i] = g /\ Names[j] = h
  ELSE g \in DOMAIN reload.to

(* What becomes of the listener's logger.                                  *)
Wanted ==
  IF reload.log \in DOMAIN reload.to THEN LogDefine(reload.to[reload.log])
  ELSE [formatter |-> NULL, appenders |-> <<>>]

KeepOld(call) ==
  IF call = "get" /\ Wanted.formatter # NULL THEN "format" ELSE "new"

(* The listener's call after this one, on the same logger.                 *)
Define(call) ==
  CASE call = "get"    -> IF Wanted.formatter = NULL THEN "clear" ELSE "format"
    [] call = "format" -> "clear"
    [] call = "clear"  -> "new"

Reloading == reload.by # NULL

(* Thread t executes the first step of call c.                             *)
Invoke(t, c) ==
  \/ c.op = "log" /\ Log(t, c.log)
  \/ c.op = "get" /\ GetLogger(t, c.log)
  \/ c.op = "yaml" /\ ToYamlString(t)
  \/ c.op = "add" /\ AddOwn(t, c.log, c.arg)
  \/ c.op = "del" /\ DelAppender(t, c.log, c.arg)
  \/ c.op = "clear" /\ ClearAppender(t, c.log)
  \/ c.op = "format" /\ SetFormatter(t, c.log, c.arg)
  \/ c.op = "own" /\ SetOwnFormatter(t, c.log, c.arg)

(* The calls a client may make now.                                        *)
ClientCalls ==
  {Call("yaml", NULL, NULL)}
  \cup {Call("get", g, NULL) : g \in Loggers}
  \cup {Call("log", g, NULL) : g \in loggers_}
  \cup {Call("clear", g, NULL) : g \in {g \in loggers_ : RootKept(g)}}
  \cup {Call("format", g, f) : g \in loggers_, f \in Patterns}
  \cup {Call("add", g, a) : g \in loggers_, a \in {a \in OwnAppenders : AttachedOnce(a)}}
  \cup {Call("del", g, a) : g \in {g \in loggers_ : RootKept(g)}, a \in OwnAppenders}
  \cup {Call("own", a, f) : a \in {a \in OwnAppenders : ConfiguredFirst(a)},
                            f \in Formats \cup {NULL}}

ClientCall(t) ==
  /\ pc[t] = "idle" /\ reload.by # t /\ fault = "none" /\ calls < MaxCalls
  /\ \E c \in ClientCalls : c.op \in profile.ops /\ Invoke(t, c)
  /\ calls' = calls + 1
  /\ UNCHANGED <<profile, reload, doc, fault>>

(* FromString of "logs" with a document that changes its value.  (No two   *)
(* at a time: what two setters do is the subject of ConfigVar.)            *)
Reload(t, new) ==
  /\ pc[t] = "idle" /\ fault = "none" /\ "reload" \in profile.ops /\ calls < MaxCalls
  /\ ~Reloading /\ Logs(new) # Logs(doc)
  /\ "root kept" \in profile.duties => Root \notin DOMAIN new
  /\ reload' = [NoReload EXCEPT !.by = t, !.to = new, !.next = "log",
                                 !.left = Changed(doc, new) \cup Gone(doc, new)]
  /\ calls' = calls + 1
  /\ UNCHANGED <<profile, loggers_, appenders_, formatter_, mutex_, appenderVars, mgr, pc, op,
                 doc, fault>>

(* Thread t is about to make the listener's next call, which is one of cs. *)
Listening(t, cs) ==
  pc[t] = "idle" /\ reload.by = t /\ reload.next \in cs /\ fault = "none"

(* First it logs to root.                                                  *)
ListenerLog(t) ==
  /\ Listening(t, {"log"})
  /\ Log(t, Root)
  /\ reload' = [reload EXCEPT !.next = "next"]
  /\ UNCHANGED <<doc, calls, fault>>

(* It is done with a logger.                                               *)
Between(t) ==
  /\ Listening(t, {"next", "new"})
  /\ reload.next = "new" => reload.n \notin DOMAIN Wanted.appenders

NextLogger(t) ==
  /\ Between(t)
  /\ \E g \in reload.left :
       /\ \A h \in reload.left : Before(g, h)
       /\ reload' = [reload EXCEPT !.left = @ \ {g}, !.log = g, !.next = "get", !.n = 1]
  /\ UNCHANGED <<loggers_, appenders_, formatter_, mutex_, appenderVars, mgr, pc, op, doc, calls, fault>>

(* It finds or creates the logger, sets the formatter if there is one to   *)
(* set, and takes the appenders away ...                                   *)
ListenerCall(t) ==
  /\ Listening(t, {"get", "format", "clear"})
  /\ \/ reload.next = "get" /\ GetLogger(t, reload.log)
     \/ reload.next = "format" /\ SetFormatter(t, reload.log, Wanted.formatter)
     \/ reload.next = "clear" /\ ClearAppender(t, reload.log)
  /\ reload' = [reload EXCEPT !.next = Define(@)]
  /\ UNCHANGED <<doc, calls, fault>>

(* ... and adds the new ones.                                              *)
ListenerAppender(t) ==
  /\ Listening(t, {"new"}) /\ reload.n \in DOMAIN Wanted.appenders
  /\ AddNew(t, reload.log, Wanted.appenders[reload.n])
  /\ reload' = [reload EXCEPT !.n = @ + 1]
  /\ UNCHANGED <<doc, calls, fault>>

(* When the listener has returned, SetValue stores the value.              *)
StoreLogs(t) ==
  /\ Between(t) /\ reload.left = {}
  /\ doc' = reload.to
  /\ reload' = NoReload
  /\ UNCHANGED <<loggers_, appenders_, formatter_, mutex_, appenderVars, mgr, pc, op, calls, fault>>

(* The steps of what thread t has begun.                                   *)
Step(t) ==
  /\ \/ LogRoot(t) \/ Emit(t) \/ EndLog(t) \/ Attach(t)
     \/ InheritTest(t) \/ InheritWrite(t) \/ InheritEnd(t)
     \/ YamlNext(t) \/ YamlEnd(t)
     \/ ListenerLog(t) \/ NextLogger(t) \/ ListenerCall(t) \/ ListenerAppender(t) \/ StoreLogs(t)
  /\ UNCHANGED profile

Next ==
  \E t \in Threads : Step(t) \/ ClientCall(t) \/ \E new \in profile.configs : Reload(t, new)

Spec == Init /\ [][Next]_vars

(* A thread goes on with what it has begun, and a thread that spins on a   *)
(* lock gets it when it stays free.                                        *)
FairSpec == Spec /\ \A t \in Threads : WF_vars(Step(t))

-----------------------------------------------------------------------------
(* Appenders are configured before they are attached ...                   *)
Configured == "configured first" \in profile.duties \/ "own" \notin profile.ops

(* ... to one logger.                                                      *)
Single == "attached once" \in profile.duties \/ "add" \notin profile.ops

(* Every document gives the root logger an appender, and clients take none *)
(* away.                                                                   *)
RootDefined ==
  /\ profile.ops \cap {"clear", "del"} = {}
  /\ \A c \in profile.configs : Root \in DOMAIN c /\ LogDefine(c[Root]).appenders # <<>>

(* The listener has cleared the root logger and added no appender to it.   *)
RootWindow == reload.log = Root /\ reload.next = "new" /\ reload.n = 1

(* Log never calls the null formatter_ of an appender that was configured  *)
(* first.  It never dereferences the null root_ of the root logger while   *)
(* that keeps its appenders; where documents define root, it does so only  *)
(* in the window of a reload between root's ClearAppender and its first    *)
(* AddAppender, neither before nor after it.                               *)
NoFault ==
  /\ Configured => fault # "null formatter"
  /\ "root kept" \in profile.duties => fault # "null root"
  /\ RootDefined /\ fault = "null root" => RootWindow

(* A call of Log that comes to its end has written the event at least once *)
(* and once per appender of one logger.                                    *)
LogIsWritten ==
  \A t \in Threads : pc[t] = "log" =>
    op[t].hits + Len(op[t].todo) = Len(appenders_[op[t].at]) /\ appenders_[op[t].at] # <<>>

(* An appender that has its own formatter uses that one.                   *)
OwnFormatterKept ==
  Configured =>
    \A a \in Appenders : has_formatter_[a] => fmt_[a] = own[a]

(* An appender without its own formatter uses the one of its logger, but   *)
(* while that logger's lock is held.                                       *)
InheritsFormatter ==
  Configured /\ Single =>
    \A g \in Loggers : Free(g) =>
      \A a \in ToSet(appenders_[g]) : ~has_formatter_[a] => fmt_[a] = formatter_[g]

(* Clients leave the loggers to the configuration.                         *)
Managed == profile.ops \subseteq {"log", "get", "yaml", "reload"}

(* Appender a and logger g are as their definitions d say.                 *)
Made(a, d) ==
  own[a] = d.formatter /\ (d.type = "file" => filename_[a] = d.file)

Applied(g, d) ==
  /\ g \in loggers_
  /\ d.formatter \in Formats => formatter_[g] = d.formatter
  /\ Len(appenders_[g]) = Len(d.appenders)
  /\ \A i \in DOMAIN d.appenders : Made(appenders_[g][i], d.appenders[i])

(* Between reloads, the loggers that "logs" defines exist with the files   *)
(* and formatters of their definition and no others, if clients leave the  *)
(* loggers to the configuration.                                           *)
ConfigApplied ==
  ~Reloading /\ Managed => \A g \in DOMAIN doc : Applied(g, LogDefine(doc[g]))

(* Between reloads, an appender for which the document gives a file or a   *)
(* valid pattern writes to that file in that format.                       *)
DocumentApplied ==
  ~Reloading /\ fault = "none" =>
    \A g \in DOMAIN doc :
      LET as == SelectSeq(doc[g].appenders, Complete) IN
      \A i \in DOMAIN as :
        /\ as[i].type = "file" => filename_[appenders_[g][i]] = as[i].file
        /\ as[i].formatter \in Formats => fmt_[appenders_[g][i]] = as[i].formatter

(* What a thread has begun ends: no two calls wait for each other's locks. *)
CallsEnd ==
  \A t \in Threads :
    (pc[t] # "idle" \/ reload.by = t) ~> ((pc[t] = "idle" /\ reload.by # t) \/ fault # "none")
=============================================================================
