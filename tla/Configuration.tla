---------------------------- MODULE Configuration ----------------------------
(***************************************************************************)
(* Where the agent's settings come from: internal/config.                  *)
(*                                                                         *)
(* A complete local file is used as it is, with defaults for what it       *)
(* leaves out.  Any other names a Control Plane, which has the settings;   *)
(* those are merged with another, shorter list of defaults.  Settings that *)
(* no other module's behaviour depends on are left out.                    *)
(***************************************************************************)
EXTENDS Integers

(* What a file or the Control Plane gives; zero and FALSE are left out.  The *)
(* interval stands for those of the heartbeat, of the sessions and of the   *)
(* metrics, which are read alike.                                           *)
Settings == [poolSize : Int, poolSizeMax : Int, githubRepo : BOOLEAN, heartbeatInterval : Int]

Default(value, otherwise) == IF value = 0 THEN otherwise ELSE value

(* Mutation: the pool has no default for its greatest size.                *)
LoadSizeOnly(file) ==
    [file EXCEPT !.poolSize = Default(@, 5),
                 !.githubRepo = TRUE,
                 !.heartbeatInterval = Default(@, 30)]

(* Only a zero is replaced; a size or an interval below zero is taken.      *)
Load(file) ==
    [file EXCEPT !.poolSize = Default(@, 5),
                 !.poolSizeMax = Default(@, 64),
                 !.githubRepo = TRUE,
                 !.heartbeatInterval = Default(@, 30)]

(* RemoteConfig has no field for the Control Plane's own settings, and the  *)
(* sizes and the repository it does have get no defaults.                   *)
MergeConfig(remote) == [remote EXCEPT !.heartbeatInterval = 30]

(* NewPool makes a channel with room for poolSizeMax, and puts poolSize      *)
(* connections into it before anybody takes one out.                        *)
NewPoolPanics(cfg) == cfg.poolSizeMax < 0
NewPoolHangs(cfg)  == cfg.poolSize > cfg.poolSizeMax

(* time.NewTicker, first thing in the task.                                *)
TickerPanics(cfg) == cfg.heartbeatInterval <= 0
=============================================================================
