------------------------------ MODULE MCLogger ------------------------------
(* Logger for TLC: names, configurations and the promises of the runs.     *)
EXTENDS Logger, TLC

Sorted == <<"root", "system">>

Def(f, apps)  == [formatter |-> f, appenders |-> apps]
App(y, n, f)  == [type |-> y, file |-> n, formatter |-> f]
Stdout        == App("stdout", NULL, NULL)
ToFile        == App("file", "log", NULL)

(* Documents that leave the root logger alone, as tests/test.yml does but  *)
(* for its first logger: patterns that parse or do not, appenders that are *)
(* incomplete ...                                                          *)
SystemConfigs ==
  {"system" :> Def("f1", <<Stdout>>),
   "system" :> Def("bad", <<App("file", NULL, NULL), ToFile, App("other", NULL, NULL), Stdout>>),
   <<>>}

(* ... and documents that define it, as tests/mutex.yml.                   *)
AllConfigs == SystemConfigs \cup {"root" :> Def("f1", <<ToFile>>)}

(* Documents that all define root, as those of tests/ do.                  *)
RootConfigs ==
  {"root" :> Def("f1", <<App("other", NULL, NULL), ToFile>>),
   "root" :> Def(NULL, <<Stdout>>) @@ "system" :> Def("f1", <<>>)}

(* Appenders with a pattern of their own.                                  *)
PatternConfigs == {"system" :> Def(NULL, <<App("stdout", NULL, "f1")>>), <<>>}

(* Reloads against logging and dumping; clients that do everything else    *)
(* with care.                                                              *)
Reloads  == [ops |-> {"log", "yaml", "reload"}, configs |-> AllConfigs, duties |-> {}]
Clients  == [ops |-> AllOps \ {"yaml", "reload"}, configs |-> {}, duties |-> AllDuties]
Mixed    == [ops |-> {"log", "clear", "format", "own", "add", "reload"},
             configs |-> {"system" :> Def("f1", <<Stdout>>)}, duties |-> AllDuties]
Rooted   == [ops |-> {"log", "reload"}, configs |-> RootConfigs, duties |-> {}]
WithPattern == [ops |-> {"log", "reload"}, configs |-> PatternConfigs, duties |-> AllDuties]

MostProfiles   == {Reloads, Clients, Mixed, Rooted}
PatternProfile == {WithPattern}
=============================================================================
