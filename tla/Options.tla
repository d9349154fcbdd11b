------------------------------ MODULE Options -------------------------------
(***************************************************************************)
(* The options of a run, from its command line and its configuration file  *)
(* (justsql/options.go).                                                   *)
(*                                                                         *)
(* Options are [o, ll, ddl, dml, nofmt, t, T, null], as they are called on *)
(* the command line; an invocation is [args, conf, explicit], where conf   *)
(* is NoConf, BadConf or what the file holds, and explicit is whether the  *)
(* command line names the file.  The lists are of the files that the globs *)
(* and directories stand for, and o of the directory's own name.           *)
(***************************************************************************)
EXTENDS Sequences

NoConf  == [is |-> "absent"]
BadConf == [is |-> "not JSON"]

IsThere(conf) == conf \notin {NoConf, BadConf}

LogLevels == {"fatal", "error", "warn", "info", "debug"}
Idents    == {"gen"}  \* names of directories that are good for a package

Either(arg, conf) == IF arg # "" THEN arg ELSE conf

\* Mutated: the file's options override the command line's.
MergeOverriding(args, conf) ==
  [o |-> Either(conf.o, args.o), ll |-> Either(conf.ll, args.ll), T |-> Either(conf.T, args.T),
   ddl |-> conf.ddl \o args.ddl, dml |-> conf.dml \o args.dml, t |-> conf.t \o args.t,
   nofmt |-> args.nofmt \/ conf.nofmt, null |-> args.null \/ conf.null]

Merge(args, conf) ==
  [o |-> Either(args.o, conf.o), ll |-> Either(args.ll, conf.ll), T |-> Either(args.T, conf.T),
   ddl |-> conf.ddl \o args.ddl, dml |-> conf.dml \o args.dml, t |-> conf.t \o args.t,
   nofmt |-> args.nofmt \/ conf.nofmt, null |-> args.null \/ conf.null]

ParseOptions(invocation) ==
  IF IsThere(invocation.conf) THEN Merge(invocation.args, invocation.conf) ELSE invocation.args

\* printUsageAndExit.
Refused(invocation) ==
  LET options == ParseOptions(invocation)
  IN  \/ invocation.conf = BadConf
      \/ invocation.conf = NoConf /\ invocation.explicit
      \/ options.ll \notin LogLevels \union {""}
      \/ options.o \notin Idents
=============================================================================
