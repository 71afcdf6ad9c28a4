---------------------------- MODULE StartupProofs ----------------------------
(***************************************************************************)
(* What Startup promises of its workers, for any environments the server   *)
(* may find and any number of sessions, with nsjail coming and going.      *)
(***************************************************************************)
EXTENDS Startup, TLAPS

LEMMA StartupInit == Init => StartupInv
BY DEF Init, StartupInv, TypeOK, RequiredNeverReplaced, NothingLeft, WorkerAsReported, Alive, Creating

\* A setting that asks for a sandbox is "on" once from_env has accepted it.
LEMMA RequiredMeansOn ==
    ASSUME \A i \in DOMAIN Steps : ~Fails(Steps[i]), env \in Hosts,
           Given(env.required), env.required # "off"
    PROVE  SandboxRequired = "on" /\ SandboxEnabled # "off"
<1>1. ~Fails("required") /\ ~Fails("contradiction")
    <2>1. Steps[2] = "required" /\ Steps[9] = "contradiction" /\ 2 \in DOMAIN Steps /\ 9 \in DOMAIN Steps
        BY DEF Steps
    <2> QED
        BY <2>1
<1>2. env.required \in Defaults \cup {"on", "off", "junk"}
    BY StartupAssumption DEF Environments
<1>3. SandboxRequired = env.required
    BY DEF SandboxRequired
<1> QED
    BY <1>1, <1>2, <1>3 DEF Fails, Given, Defaults, Numbers

\* The settings and what they come to stay as they are.
LEMMA EnvKept ==
    ASSUME env' = env
    PROVE  /\ SandboxEnabled' = SandboxEnabled /\ SandboxRequired' = SandboxRequired
           /\ \A i \in DOMAIN Steps : Fails(Steps[i])' = Fails(Steps[i])
BY DEF SandboxEnabled, SandboxRequired, Fails, WrapperMissing

LEMMA StartupNext == StartupInv /\ [Next]_vars => StartupInv'
<1> SUFFICES ASSUME StartupInv, [Next]_vars PROVE StartupInv'
    OBVIOUS
<1>0. env' = env
    BY DEF Next, New, FromEnvFails, FromEnv, Boot, HostChanges, MakeDir, MakePackages, Jail,
           RefuseUnjailed, FallBack, Build, Spawn, SpawnFails, WorkerStarts, DropSession, vars, bootVars
<1> USE <1>0, EnvKept DEF StartupInv, TypeOK, RequiredNeverReplaced, NothingLeft,
                         WorkerAsReported, Alive, Creating, bootVars
<1>1. CASE FromEnvFails
    BY <1>1 DEF FromEnvFails, Exit
<1>2. CASE FromEnv
    BY <1>2 DEF FromEnv
<1>3. CASE Boot
    BY <1>3 DEF Boot, Exit
<1>4. CASE HostChanges
    BY <1>4 DEF HostChanges
<1>5. ASSUME NEW o \in Objs, MakeDir(o) PROVE StartupInv'
    BY <1>5 DEF MakeDir
<1>6. ASSUME NEW o \in Objs, MakePackages(o) PROVE StartupInv'
    BY <1>6 DEF MakePackages
<1>7. ASSUME NEW o \in Objs, NEW m \in {"jailed", "direct"}, Build(o, m), stage[o] = "packages",
             m = "direct" => SandboxEnabled = "off" \/ SandboxRequired = "off"
      PROVE  StartupInv'
    <2>1. /\ stage'[o] = "command" /\ mode'[o] = m
          /\ given'[o] = IF m = "jailed" THEN JailPath ELSE HostPath(o)
        BY <1>7 DEF Build
    <2>2. \A p \in Objs \ {o} : stage'[p] = stage[p] /\ mode'[p] = mode[p] /\ given'[p] = given[p]
        BY <1>7 DEF Build
    <2>3. UNCHANGED <<phase, sandboxed, imports, workdirs, packages, nsjail>>
        BY <1>7 DEF Build
    <2>4. TypeOK'
        BY <1>7 DEF Build
    <2>5. Creating' = Creating /\ \A p \in Objs : Alive(p)' <=> Alive(p)
        BY <1>7, <2>1, <2>2
    <2>6. NothingLeft'
        BY <1>7, <2>1, <2>2, <2>3, <2>5
    <2>7. RequiredNeverReplaced' /\ WorkerAsReported'
        BY <1>7, <2>1, <2>2, <2>3, <2>5
    <2> QED
        BY <1>7, <2>1, <2>2, <2>3, <2>4, <2>6, <2>7
<1>8. ASSUME NEW o \in Objs, RefuseUnjailed(o) PROVE StartupInv'
    BY <1>8 DEF RefuseUnjailed, RemoveDir
<1>9. ASSUME NEW o \in Objs, Jail(o) \/ FallBack(o) PROVE StartupInv'
    BY <1>7, <1>9 DEF Jail, FallBack
<1>10. ASSUME NEW o \in Objs, Spawn(o) PROVE StartupInv'
    BY <1>10, RequiredMeansOn DEF Spawn
<1>11. ASSUME NEW o \in Objs, SpawnFails(o) PROVE StartupInv'
    BY <1>11 DEF SpawnFails, RemoveDir
<1>12. ASSUME NEW o \in Objs, WorkerStarts(o) PROVE StartupInv'
    <2>1. o \in packages
        BY <1>12 DEF WorkerStarts
    <2>2. PICK path \in {given[o]} \cup (IF mode[o] = "jailed" THEN {JailPath} ELSE {}) :
              imports' = [imports EXCEPT ![o] = LeadsTo(path, o) \cap packages]
        BY <1>12 DEF WorkerStarts
    <2>3. LeadsTo(path, o) = {o}
        BY <1>12 DEF WorkerStarts, LeadsTo, HostPath, JailPath
    <2>4. \A p \in Objs : imports'[p] = IF p = o THEN {o} ELSE imports[p]
        BY <2>1, <2>2, <2>3
    <2>5. \A p \in Objs : stage'[p] = IF p = o THEN "running" ELSE stage[p]
        BY <1>12 DEF WorkerStarts
    <2>6. UNCHANGED <<phase, mode, sandboxed, given, workdirs, packages, nsjail>>
        BY <1>12 DEF WorkerStarts
    <2>7. TypeOK' /\ stage[o] = "live"
        BY <1>12 DEF WorkerStarts
    <2>8. Creating' = Creating /\ \A p \in Objs : Alive(p)' <=> Alive(p)
        BY <2>5, <2>7
    <2>9. RequiredNeverReplaced' /\ NothingLeft' /\ WorkerAsReported'
        BY <2>4, <2>5, <2>6, <2>7, <2>8
    <2> QED
        BY <2>5, <2>6, <2>7, <2>9
<1>13. ASSUME NEW o \in Objs, DropSession(o) PROVE StartupInv'
    BY <1>13 DEF DropSession, RemoveDir
<1>14. CASE UNCHANGED vars
    BY <1>14 DEF vars
<1> QED
    BY <1>1, <1>2, <1>3, <1>4, <1>5, <1>6, <1>7, <1>8, <1>9, <1>10, <1>11, <1>12, <1>13, <1>14
    DEF Next, New

\* A server that serves has settings that pass every check of from_env, and each
\* command it has built is one they allow (config.rs, sandbox.rs).
THEOREM StartupInvHolds == Spec => []StartupInv
BY StartupInit, StartupNext, PTL DEF Spec

\* Who demands a sandbox has no worker outside one: the check of the settings,
\* the probe at boot and the probe of each session together see to it.
THEOREM RequiredSandbox == Spec => []RequiredNeverReplaced
BY StartupInvHolds, PTL DEF StartupInv

\* Every directory belongs to a session that is being made or lives.
THEOREM NoResidue == Spec => []NothingLeft
BY StartupInvHolds, PTL DEF StartupInv

\* In either mode the worker imports from where pip installs for its session,
\* and is reported as what it is.
THEOREM WorkersAsReported == Spec => []WorkerAsReported
BY StartupInvHolds, PTL DEF StartupInv
===============================================================================
