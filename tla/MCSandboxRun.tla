---------------------------- MODULE MCSandboxRun ----------------------------
EXTENDS SandboxRun

\* Every adapter asked for by name and by default, with the digest pin required
\* by neither source, by the settings and by the environment.
MCConfigs ==
    {c \in [name : {"auto", "namespace", "container", "unsafe"}, pin : BOOLEAN,
            envPin : BOOLEAN, allowUnsafe : BOOLEAN, pinned : BOOLEAN] :
        /\ ~(c.pin /\ c.envPin)
        /\ c.name \in {"namespace", "container"} => ~c.allowUnsafe
        /\ c.name # "container" => c.pinned
        /\ c.name = "container" /\ c.pinned => ~c.pin
        /\ c.name = "container" /\ ~c.pinned => c.pin \/ c.envPin}

\* The container adapter, with nothing else to choose.
ContainerOnly ==
    {[name |-> "container", pin |-> FALSE, envPin |-> FALSE, allowUnsafe |-> FALSE,
      pinned |-> TRUE]}
=============================================================================
