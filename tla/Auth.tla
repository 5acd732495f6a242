--------------------------------- MODULE Auth ---------------------------------
(***************************************************************************)
(* Authentication in fish-rt-adapter: AuthManager's cookie map and its     *)
(* file (auth.rs), FishAPI::ensure_auth and the QR login (api.rs), across  *)
(* crashes and restarts of the process and failures of the file system.    *)
(*                                                                         *)
(* A cookie's value is the number of the login session that set it, 0 for  *)
(* none.  "unb" stands for the account cookies, which a login sets         *)
(* together; "tk" for those every MTOP response may rotate (_m_h5_tk).     *)
(* Nothing is assumed of the service: it may answer any request in any of  *)
(* the ways the code tells apart, and send any of a new session's cookies. *)
(***************************************************************************)
EXTENDS Naturals

CONSTANTS
  EnvCookies,  \* the values FISH_AUTH_JSON may have; NoCookies when it is unset
  MaxLogins    \* bound on the sessions of a behaviour

VARIABLES
  pc,        \* where the process is
  mem,       \* AuthManager.cookies
  saving,    \* how far save_cookies_to_file is
  file,      \* data/fish_auth.json
  env,       \* FISH_AUTH_JSON; never changes
  logins,    \* sessions there have been
  gone,      \* sessions this code found invalid and dropped
  trouble    \* whether a file operation has failed

vars == <<pc, mem, saving, file, env, logins, gone, trouble>>

PC == {"off", "imported", "haslogin", "token", "refresh", "rm", "clear",
       "mh5tk", "qrgen", "poll", "connect", "failed"}

Keys == {"unb", "tk"}
Sessions == 1..MaxLogins
CookieMaps == UNION {[K -> 0..MaxLogins] : K \in SUBSET Keys}

(* The environment holds no cookies of sessions that are still to come.    *)
ASSUME AuthAssumption ==
  /\ MaxLogins \in Nat \ {0}
  /\ EnvCookies \subseteq {c \in CookieMaps : \A k \in DOMAIN c : c[k] <= 1}

NoCookies == [k \in {} |-> 0]

(* Cookies of session s under the keys K.                                  *)
Of(s, K) == [k \in K |-> s]

(* HashMap::insert for each key of `new'.                                  *)
Merge(old, new) ==
  [k \in DOMAIN old \cup DOMAIN new |-> IF k \in DOMAIN new THEN new[k] ELSE old[k]]

(* `cookies.contains_key("unb")', and the session it belongs to.           *)
HasUnb(c) == "unb" \in DOMAIN c
SessionOf(c) == IF HasUnb(c) THEN c["unb"] ELSE 0

(* A torn file is one that std::fs::write has truncated but not filled.    *)
Absent == [state |-> "absent", cookies |-> NoCookies]
Torn == [state |-> "torn", cookies |-> NoCookies]
Holding(c) == [state |-> "ok", cookies |-> c]

Init ==
  /\ pc = "off" /\ mem = NoCookies /\ saving = "no"
  /\ file \in {Absent, Torn, Holding(Of(1, Keys))}
  /\ env \in EnvCookies
  /\ logins = 1 /\ gone = {} /\ trouble = FALSE
------------------------------------------------------------------------------
(* save_cookies_to_file: std::fs::write truncates, then fills.  Whoever    *)
(* saves waits for it (Ready), and no error is reported to the caller.     *)

Ready(at) == pc = at /\ saving = "no"

SaveOpens ==
  /\ saving = "open"
  /\ \/ file' = Torn /\ saving' = "fill" /\ UNCHANGED trouble
     \/ saving' = "no" /\ trouble' = TRUE /\ UNCHANGED file
  /\ UNCHANGED <<pc, mem, env, logins, gone>>

SaveFills ==
  /\ saving = "fill"
  /\ \/ file' = Holding(mem) /\ UNCHANGED trouble
     \/ trouble' = TRUE /\ UNCHANGED file
  /\ saving' = "no"
  /\ UNCHANGED <<pc, mem, env, logins, gone>>

(* Mutant: the cookies change in memory only.                              *)
KeepAndGo(new, to) ==
  /\ mem' = Merge(mem, new)
  /\ saving' = "no"
  /\ pc' = to

(* The cookies of a response or an import are merged; a change is saved.   *)
StoreAndGo(new, to) ==
  /\ mem' = Merge(mem, new)
  /\ saving' = IF mem' = mem THEN "no" ELSE "open"
  /\ pc' = to

(* save_cookies_from_response of an MTOP call: it may rotate the token of  *)
(* the session it was made with, or set one of no session.                 *)
Rotate(to) ==
  \/ \E s \in {SessionOf(mem), 0} : StoreAndGo(Of(s, {"tk"}), to)
  \/ pc' = to /\ UNCHANGED <<mem, saving>>
------------------------------------------------------------------------------
(* Mutant: the file's contents are not decoded.                            *)
LoadRaw == IF file.state = "ok" THEN file ELSE env

(* Mutant: the environment before the file.                                *)
LoadEnvFirst == IF env # NoCookies \/ file.state # "ok" THEN env ELSE file.cookies

(* AuthManager::new: the file, else the environment, else nothing.         *)
Load == IF file.state = "ok" THEN file.cookies ELSE env

(* The start of run(): ensure_auth looks for "unb".                        *)
Boot ==
  /\ pc = "off"
  /\ mem' = Load
  /\ pc' = IF HasUnb(mem') THEN "haslogin" ELSE "mh5tk"
  /\ UNCHANGED <<saving, file, env, logins, gone, trouble>>

(* import_browser_cookies before the start, by an AuthManager of its own:  *)
(* the user has logged in with a browser and gives some of its cookies.    *)
Import ==
  /\ pc = "off" /\ logins < MaxLogins
  /\ logins' = logins + 1
  /\ \E K \in SUBSET Keys : mem' = Merge(Load, Of(logins', K))
  /\ saving' = "open"
  /\ pc' = "imported"
  /\ UNCHANGED <<file, env, gone, trouble>>

(* The importer is given its report and is done.                           *)
ImportReturns ==
  /\ Ready("imported")
  /\ pc' = "off" /\ mem' = NoCookies
  /\ UNCHANGED <<saving, file, env, logins, gone, trouble>>

(* has_login: no error and not logged in is final, all else goes on.       *)
HasLogin ==
  /\ Ready("haslogin")
  /\ pc' \in {"rm", "token"}
  /\ UNCHANGED <<mem, saving, file, env, logins, gone, trouble>>

(* The first get_token: an access token, an expired session, risk control, *)
(* some other refusal, or an error of the request.                         *)
GetToken ==
  /\ Ready("token")
  /\ \E to \in {"connect", "rm", "failed", "refresh", "mh5tk"} : Rotate(to)
  /\ UNCHANGED <<file, env, logins, gone, trouble>>

(* "Token invalid, trying to refresh": an accessToken of any value will    *)
(* do; without one the QR login follows, with the cookies still there.     *)
RefreshToken ==
  /\ Ready("refresh")
  /\ \E to \in {"connect", "mh5tk"} : Rotate(to)
  /\ UNCHANGED <<file, env, logins, gone, trouble>>

(* Mutant: the file of an invalid session stays.                           *)
KeepAuthFile ==
  /\ Ready("rm")
  /\ pc' = "clear"
  /\ UNCHANGED <<file, trouble, mem, saving, env, logins, gone>>

(* rm_auth_file; an error is only logged.                                  *)
RmAuthFile ==
  /\ Ready("rm")
  /\ pc' = "clear"
  /\ \/ file' = Absent /\ UNCHANGED trouble
     \/ file # Absent /\ trouble' = TRUE /\ UNCHANGED file
  /\ UNCHANGED <<mem, saving, env, logins, gone>>

(* `c.clear()', then the QR login.                                         *)
Clear ==
  /\ Ready("clear")
  /\ mem' = NoCookies /\ gone' = gone \cup {SessionOf(mem)}
  /\ pc' = "mh5tk"
  /\ UNCHANGED <<saving, file, env, logins, trouble>>
------------------------------------------------------------------------------
(* qrcode_login_flow.                                                      *)

GetMh5tk ==
  /\ Ready("mh5tk")
  /\ \E to \in {"qrgen", "failed"} : Rotate(to)
  /\ UNCHANGED <<file, env, logins, gone, trouble>>

QrcodeGen ==
  /\ Ready("qrgen")
  /\ pc' \in {"poll", "failed"}
  /\ UNCHANGED <<mem, saving, file, env, logins, gone, trouble>>

(* The code expires, the user cancels, risk control, or a request error;   *)
(* NEW, SCANED and unknown states go round again.                          *)
QrcodeEnds ==
  /\ Ready("poll")
  /\ pc' = "failed"
  /\ UNCHANGED <<mem, saving, file, env, logins, gone, trouble>>

(* CONFIRMED: whatever cookies came with it are merged and saved, none,    *)
(* all or some of the new session's, and the loop returns.                 *)
QrcodeConfirmed ==
  /\ Ready("poll") /\ logins < MaxLogins
  /\ logins' = logins + 1
  /\ \E K \in SUBSET Keys : StoreAndGo(Of(logins', K), "connect")
  /\ UNCHANGED <<file, env, gone, trouble>>

(* The reconnect loop after ensure_auth: get_access_token, whose failure   *)
(* only delays the next attempt.                                           *)
Reconnect ==
  /\ Ready("connect")
  /\ Rotate("connect")
  /\ UNCHANGED <<file, env, logins, gone, trouble>>

(* run() has returned the error and the program ends.                      *)
Exit ==
  /\ Ready("failed")
  /\ pc' = "off" /\ mem' = NoCookies
  /\ UNCHANGED <<saving, file, env, logins, gone, trouble>>
------------------------------------------------------------------------------
(* The environment.                                                        *)

Crash ==
  /\ pc # "off"
  /\ pc' = "off" /\ mem' = NoCookies /\ saving' = "no"
  /\ UNCHANGED <<file, env, logins, gone, trouble>>

Next ==
  \/ Boot \/ Import \/ ImportReturns \/ SaveOpens \/ SaveFills
  \/ HasLogin \/ GetToken \/ RefreshToken \/ RmAuthFile \/ Clear
  \/ GetMh5tk \/ QrcodeGen \/ QrcodeEnds \/ QrcodeConfirmed \/ Reconnect \/ Exit
  \/ Crash

Spec == Init /\ [][Next]_vars
------------------------------------------------------------------------------
TypeOK ==
  /\ pc \in PC
  /\ mem \in CookieMaps /\ env \in CookieMaps /\ file.cookies \in CookieMaps
  /\ file.state \in {"absent", "torn", "ok"} /\ saving \in {"no", "open", "fill"}
  /\ logins \in Sessions /\ gone \subseteq 0..MaxLogins
  /\ trouble \in BOOLEAN

Stored == file.cookies

(* What the process knows is what it would know after a restart, unless    *)
(* the file system has failed or it is still on the cookies of the         *)
(* environment.  auth.rs 110-131, api.rs 236-240, 569-572, 594-598.        *)
RestartForgetsNothing ==
  pc # "off" /\ saving = "no" /\ pc # "clear" /\ ~trouble =>
    Stored = mem \/ (file.state # "ok" /\ mem = env)

(* A session that was found invalid and dropped never comes back from      *)
(* disk, whatever crashes and merges follow: it is in no cookie, neither   *)
(* in memory nor in the file.  api.rs 592-600, 627-633 with auth.rs 86-143.*)
DroppedStaysDropped ==
  ~trouble /\ env = NoCookies =>
    \A s \in gone \ {0} :
      /\ \A k \in DOMAIN mem : mem[k] # s
      /\ \A k \in DOMAIN Stored : Stored[k] # s

(* The process never works with an older login than a readable file holds, *)
(* so that no save puts an old session's account cookies over a newer      *)
(* one's: whatever saves failed or were cut off, whichever of a login's    *)
(* cookies came, and although the environment's cookies stand in for a     *)
(* missing or torn file and a file that could not be removed comes back.   *)
(* auth.rs 60-62, 86-131, 164-179, api.rs 222-240, 549-573, 592-600.       *)
NoOlderLogin ==
  HasUnb(mem) /\ HasUnb(Stored) => SessionOf(Stored) <= SessionOf(mem)

(* Stated by README.md 149, violated by the code: an import that returns   *)
(* its report has put the cookies into the file.                           *)
ImportIsPersisted == Ready("imported") => Stored = mem
==============================================================================
