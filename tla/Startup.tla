------------------------------- MODULE Startup -------------------------------
(***************************************************************************)
(* From the environment to running workers: Config::from_env, the probe    *)
(* for nsjail at boot (src/src/main.rs) and for every session, and the     *)
(* steps of Session::new with what each leaves behind when a later one     *)
(* fails.  The host may lose and regain nsjail at any time.                *)
(***************************************************************************)
EXTENDS Naturals, Sequences

CONSTANTS
    Objs,   \* sessions that can come to be
    Hosts   \* environments the server may find: see Environments

Numbers == {"TIME_LIMIT", "MEMORY_LIMIT", "EXEC_TIMEOUT", "MAX_SESSIONS"}

\* A variable is "unset", "blank", "not unicode", or has a value of some kind.
Given(value) == value \notin {"unset", "blank", "not unicode"}
Defaults == {"unset", "blank", "not unicode"}
Environments ==
    [enabled : Defaults \cup {"on", "off", "junk"},
     required : Defaults \cup {"on", "off", "junk"},
     numbers : [Numbers -> Defaults \cup {"positive", "zero", "junk"}],
     roots : Seq({"", "rooted", "relative"}),  \* split at ":" and trimmed; <<>>: unset
     bind : Defaults \cup {"address", "junk"},
     wrapper : {"found", "blank", "missing"},  \* where the variable or the default points
     user : {"root", "other"}]

ASSUME StartupAssumption == Hosts \subseteq Environments

VARIABLES
    env,        \* the environment of the server
    nsjail,     \* is nsjail on the host: "there" or "missing"
    phase,      \* "boot", "parsed", "serving", "exited"
    why,        \* the check that refused to start
    stage,      \* stage[o]: how far Session::new is with o
    mode,       \* the command it has built: "jailed" or "direct"
    sandboxed,  \* Session::sandboxed
    given,      \* LIBERADO_PACKAGES_DIR of the worker
    imports,    \* the sessions whose packages the worker has on sys.path
    workdirs,   \* TempDirs on the disk
    packages    \* those that have a packages directory

bootVars == <<env, phase, why>>
vars == <<bootVars, nsjail, stage, mode, sandboxed, given, imports, workdirs, packages>>

\* A path to a packages directory: on the host or under the bind mount of a jail.
HostPath(o) == [under |-> "tmp", dir |-> o]
JailPath == [under |-> "work", dir |-> "packages"]
NoPath == [under |-> "none", dir |-> "none"]

Steps == <<"enabled", "required", "TIME_LIMIT", "MEMORY_LIMIT", "EXEC_TIMEOUT", "MAX_SESSIONS",
           "roots", "bind", "contradiction", "wrapper">>

TypeOK ==
    /\ env \in Hosts /\ nsjail \in {"there", "missing"}
    /\ phase \in {"boot", "parsed", "serving", "exited"}
    /\ stage \in [Objs -> {"none", "dir", "packages", "command", "live", "running", "refused", "gone"}]
    /\ mode \in [Objs -> {"none", "jailed", "direct"}]
    /\ sandboxed \in [Objs -> {"unknown", "yes", "no"}]
    /\ DOMAIN given = Objs /\ DOMAIN imports = Objs
    /\ workdirs \subseteq Objs /\ packages \subseteq workdirs

Init ==
    /\ env \in Hosts /\ nsjail \in {"there", "missing"}
    /\ phase = "boot" /\ why = "nothing"
    /\ stage = [o \in Objs |-> "none"] /\ mode = [o \in Objs |-> "none"]
    /\ sandboxed = [o \in Objs |-> "unknown"]
    /\ given = [o \in Objs |-> NoPath] /\ imports = [o \in Objs |-> {}]
    /\ workdirs = {} /\ packages = {}

-------------------------------------------------------------------------------
(* Config::from_env. *)

\* env_bool.
SandboxEnabled == IF Given(env.enabled) THEN env.enabled ELSE "on"
SandboxRequired == IF Given(env.required) THEN env.required ELSE "off"

\* default_wrapper_path takes a blank value as it is: the empty path.
WrapperMissing == env.wrapper \in {"blank", "missing"}

\* Mutant of Fails: the settings are not checked against each other.
FailsAlone(step) ==
    CASE step = "enabled" -> SandboxEnabled = "junk"
      [] step = "required" -> SandboxRequired = "junk"
      [] step = "wrapper" -> WrapperMissing
      [] OTHER -> FALSE

\* What env_bool, env_u64, env_roots and validate refuse.  A blank value counts
\* as unset; separators alone do not.
Fails(step) ==
    CASE step = "enabled" -> SandboxEnabled = "junk"
      [] step = "required" -> SandboxRequired = "junk"
      [] step \in Numbers -> env.numbers[step] \in {"zero", "junk"}
      [] step = "roots" ->
            \/ \E i \in DOMAIN env.roots : env.roots[i] = "relative"
            \/ Len(env.roots) > 1 /\ \A i \in DOMAIN env.roots : env.roots[i] = ""
      [] step = "bind" -> env.bind = "junk"
      [] step = "contradiction" -> SandboxRequired = "on" /\ SandboxEnabled = "off"
      [] step = "wrapper" -> WrapperMissing

Exit(reason) == phase' = "exited" /\ why' = reason

\* The first check that fails ends main.
FromEnvFails ==
    /\ phase = "boot"
    /\ \E i \in DOMAIN Steps :
          /\ Fails(Steps[i])
          /\ \A j \in 1..(i - 1) : ~Fails(Steps[j])
          /\ Exit(Steps[i])
    /\ UNCHANGED <<env, nsjail, stage, mode, sandboxed, given, imports, workdirs, packages>>

FromEnv ==
    /\ phase = "boot"
    /\ \A i \in DOMAIN Steps : ~Fails(Steps[i])
    /\ phase' = "parsed"
    /\ UNCHANGED <<env, why, nsjail, stage, mode, sandboxed, given, imports, workdirs, packages>>

-------------------------------------------------------------------------------
(* The sandbox. *)

\* probe_sandbox: find_nsjail, check_root.
ProbeOk == nsjail = "there" /\ env.user = "root"

\* run: a sandbox that is required has to be there when the server starts.
Boot ==
    /\ phase = "parsed"
    /\ IF SandboxEnabled = "on" /\ ~ProbeOk /\ SandboxRequired = "on"
         THEN Exit("sandbox")
         ELSE phase' = "serving" /\ UNCHANGED why
    /\ UNCHANGED <<env, nsjail, stage, mode, sandboxed, given, imports, workdirs, packages>>

HostChanges ==
    /\ nsjail' \in {"there", "missing"}
    /\ UNCHANGED <<bootVars, stage, mode, sandboxed, given, imports, workdirs, packages>>

-------------------------------------------------------------------------------
(* Session::new, under the map lock: one at a time. *)

Creating == {o \in Objs : stage[o] \in {"dir", "packages", "command"}}

MakeDir(o) ==
    /\ phase = "serving" /\ Creating = {} /\ stage[o] = "none"
    /\ stage' = [stage EXCEPT ![o] = "dir"]
    /\ workdirs' = workdirs \cup {o}
    /\ UNCHANGED <<bootVars, nsjail, mode, sandboxed, given, imports, packages>>

MakePackages(o) ==
    /\ stage[o] = "dir"
    /\ stage' = [stage EXCEPT ![o] = "packages"]
    /\ packages' = packages \cup {o}
    /\ UNCHANGED <<bootVars, nsjail, mode, sandboxed, given, imports, workdirs>>

\* Mutant of Build: the packages are at /work/packages in either mode.
BuildJailPath(o, m) ==
    /\ stage' = [stage EXCEPT ![o] = "command"]
    /\ mode' = [mode EXCEPT ![o] = m]
    /\ given' = [given EXCEPT ![o] = JailPath]
    /\ UNCHANGED <<bootVars, nsjail, sandboxed, imports, workdirs, packages>>

\* build_nsjail_cmd or build_direct_cmd, with apply_worker_env.
Build(o, m) ==
    /\ stage' = [stage EXCEPT ![o] = "command"]
    /\ mode' = [mode EXCEPT ![o] = m]
    /\ given' = [given EXCEPT ![o] = IF m = "jailed" THEN JailPath ELSE HostPath(o)]
    /\ UNCHANGED <<bootVars, nsjail, sandboxed, imports, workdirs, packages>>

\* Dropping the TempDir removes what is in it.
RemoveDir(o) ==
    /\ workdirs' = workdirs \ {o}
    /\ packages' = packages \ {o}

Jail(o) ==
    /\ stage[o] = "packages"
    /\ SandboxEnabled = "on" /\ ProbeOk
    /\ Build(o, "jailed")

RefuseUnjailed(o) ==
    /\ stage[o] = "packages"
    /\ SandboxEnabled = "on" /\ ~ProbeOk /\ SandboxRequired = "on"
    /\ stage' = [stage EXCEPT ![o] = "refused"]
    /\ RemoveDir(o)
    /\ UNCHANGED <<bootVars, nsjail, mode, sandboxed, given, imports>>

\* Mutant of FallBack: the probe at boot has settled whether a sandbox is there.
FallBackLate(o) ==
    /\ stage[o] = "packages"
    /\ SandboxEnabled = "off" \/ ~ProbeOk
    /\ Build(o, "direct")

FallBack(o) ==
    /\ stage[o] = "packages"
    /\ SandboxEnabled = "off" \/ (~ProbeOk /\ SandboxRequired = "off")
    /\ Build(o, "direct")

\* The worker runs, or will: nsjail is there (or was, when it was started).
Spawn(o) ==
    /\ stage[o] = "command"
    /\ mode[o] = "jailed" => nsjail = "there"
    /\ stage' = [stage EXCEPT ![o] = "live"]
    /\ sandboxed' = [sandboxed EXCEPT ![o] = IF mode[o] = "jailed" THEN "yes" ELSE "no"]
    /\ UNCHANGED <<bootVars, nsjail, mode, given, imports, workdirs, packages>>

\* Mutant of SpawnFails: the directory is no TempDir.
SpawnFailsDirty(o) ==
    /\ stage[o] \in {"dir", "command"}
    /\ stage' = [stage EXCEPT ![o] = "refused"]
    /\ UNCHANGED <<bootVars, nsjail, mode, sandboxed, given, imports, workdirs, packages>>

\* Any step from the packages directory to the spawn; tempdir itself leaves nothing.
SpawnFails(o) ==
    /\ stage[o] \in {"dir", "command"}
    /\ stage' = [stage EXCEPT ![o] = "refused"]
    /\ RemoveDir(o)
    /\ UNCHANGED <<bootVars, nsjail, mode, sandboxed, given, imports>>

-------------------------------------------------------------------------------
(* The worker, and the end of the session. *)

\* The directory on the host that a path leads to, for the worker of o: a jail
\* has the whole host below /, and its own directory at /work.
LeadsTo(path, o) ==
    IF path.under = "tmp" THEN {path.dir}
    ELSE IF path.under = "work" /\ mode[o] = "jailed" THEN {o}
    ELSE {}

\* wrapper.py puts the directory on sys.path if it is there.  nsjail may hand the
\* environment on or not; without it the path is DEFAULT_PACKAGES_DIR.
WorkerStarts(o) ==
    /\ stage[o] = "live"
    /\ stage' = [stage EXCEPT ![o] = "running"]
    /\ \E path \in {given[o]} \cup (IF mode[o] = "jailed" THEN {JailPath} ELSE {}) :
          imports' = [imports EXCEPT ![o] = LeadsTo(path, o) \cap packages]
    /\ UNCHANGED <<bootVars, nsjail, mode, sandboxed, given, workdirs, packages>>

DropSession(o) ==
    /\ stage[o] \in {"live", "running"}
    /\ stage' = [stage EXCEPT ![o] = "gone"]
    /\ RemoveDir(o)
    /\ UNCHANGED <<bootVars, nsjail, mode, sandboxed, given, imports>>

New(o) ==
    \/ MakeDir(o) \/ MakePackages(o)
    \/ Jail(o) \/ RefuseUnjailed(o) \/ FallBack(o)
    \/ Spawn(o) \/ SpawnFails(o)

Next ==
    \/ FromEnvFails \/ FromEnv \/ Boot \/ HostChanges
    \/ \E o \in Objs : New(o) \/ WorkerStarts(o) \/ DropSession(o)

Spec == Init /\ [][Next]_vars

-------------------------------------------------------------------------------
(* Properties. *)

Alive(o) == stage[o] \in {"live", "running"}

\* "Fail session creation instead of silently downgrading" (Config): whoever has
\* set LIBERADO_SANDBOX_REQUIRED to anything but "no" has no worker outside a
\* jail, whatever else is set, and whenever nsjail comes or goes.  (A value that
\* is not Unicode counts as not set.)
RequiredNeverReplaced ==
    \A o \in Objs : Alive(o) /\ Given(env.required) /\ env.required # "off" => mode[o] = "jailed"

\* Session::new leaves nothing behind when one of its steps fails, nor does a
\* session that is dropped; and no step takes away the directory of another.
NothingLeft ==
    /\ workdirs = Creating \cup {o \in Objs : Alive(o)}
    /\ packages = workdirs \ {o \in Objs : stage[o] = "dir"}

\* What list_python_sessions says of a session is how its worker runs, and what
\* install_package puts into packages_path is what the worker imports from, in
\* either mode, and nobody else's.
WorkerAsReported ==
    \A o \in Objs :
        /\ Alive(o) => (sandboxed[o] = "yes" <=> mode[o] = "jailed")
        /\ stage[o] = "running" => imports[o] = {o}

\* With what the proof needs: the checks of boot hold for as long as it serves,
\* and a command that is built is one the settings allow.
StartupInv ==
    /\ TypeOK
    /\ RequiredNeverReplaced /\ NothingLeft /\ WorkerAsReported
    /\ phase \in {"parsed", "serving"} => \A i \in DOMAIN Steps : ~Fails(Steps[i])
    /\ \A o \in Objs :
        /\ stage[o] # "none" => phase = "serving"
        /\ stage[o] \in {"command", "live", "running"} =>
              /\ \/ mode[o] = "jailed"
                 \/ mode[o] = "direct" /\ (SandboxEnabled = "off" \/ SandboxRequired = "off")
              /\ given[o] = IF mode[o] = "jailed" THEN JailPath ELSE HostPath(o)
===============================================================================
