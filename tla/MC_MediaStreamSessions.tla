----------------------- MODULE MC_MediaStreamSessions -----------------------
(* Model-checking instance of MediaStreamSessions: a stream built from     *)
(* fresh sessions, or from sessions that already carry one context (a     *)
(* reused or multistream set), or both ZRTP and DTLS ones.                 *)
EXTENDS MediaStreamSessions

MCInitContexts == {{}, {"zrtp"}, {"dtls"}, {"srtp"}}

(* Only fresh sessions or ones with a single ZRTP context, the starting   *)
(* points of the security-context question.                               *)
MCFreshOrZrtp == {{}, {"zrtp"}}
=============================================================================
