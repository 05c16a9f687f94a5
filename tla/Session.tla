------------------------------- MODULE Session -------------------------------
(***************************************************************************)
(* internal/auth/auth.go: sessions that live in a signed cookie only.      *)
(* The server keeps nothing: who is logged in follows from the cookie a    *)
(* request carries and the configuration of the process that answers it.   *)
(***************************************************************************)
CONSTANTS
    User,      \* values of APP_ADMIN_USERNAME
    Secret,    \* values of APP_SESSION_SECRET
    Carried    \* names that a cookie brings back as they are

(***************************************************************************)
(* Login writes the name into the cookie as it is.  A name with a | makes  *)
(* three parts of the value, and net/http drops bytes that are not allowed *)
(* in a cookie (non-ASCII, quotes, semicolons): such names are not Carried.*)
(***************************************************************************)
ASSUME SessionAssumption == Carried \subseteq User

\* The password is left out: no cookie depends on it.
Conf == [user : User, secret : Secret]

\* What the browser keeps under modelister_session: nothing, or one value.
\* It stands for the configuration that signed it: user|hmac(secret, user).
Cookie == {{}} \cup {{c} : c \in Conf}

NoCookie == {}
SignedValue(conf) == {conf}

\* Mutant: the routes are registered outside RequireAuth.
AnyoneAuthenticated(conf, cookie) == TRUE

\* Two parts, the name of the administrator, and its signature.
Authenticated(conf, cookie) == cookie = SignedValue(conf) /\ conf.user \in Carried
==============================================================================
