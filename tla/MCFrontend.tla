------------------------------- MODULE MCFrontend -------------------------------
(***************************************************************************)
(* One instance for TLC of the frontend's three modules, which share no    *)
(* variable: a behaviour is one of the session, of a list page or of a     *)
(* purchase form, and the other two stay in one initial state.  The form's *)
(* behaviours are about one purchase whose quantity changes while it is    *)
(* sent and Trading may restart, or about two and the statuses pushed      *)
(* meanwhile: all at once have too many states.  A run names what its      *)
(* behaviours are about.                                                   *)
(***************************************************************************)
EXTENDS BrowserSession, ListPage, PurchaseForm, TLC

CONSTANTS alice, bob, carol, sword, potion, Focuses

MCRoleOf == alice :> "Admin" @@ bob :> "Player" @@ carol :> "Other"

VARIABLE focus   \* what the behaviour is about

vars == <<focus, sessionVars, pageVars, formVars>>

Session == focus = "session" /\ UNCHANGED <<focus, pageVars, formVars>>
Pages == focus = "pages" /\ UNCHANGED <<focus, sessionVars, formVars>>
Form ==
    /\ focus \in {"retries", "statuses"} /\ UNCHANGED <<focus, sessionVars, pageVars>>
    /\ focus = "retries" =>
          link' # "on" /\ \A n \in Purchases \ {1} : chain'[n] = NoChain
    /\ focus = "statuses" => form'.qty = 1 /\ run' = 0

\* The service's rows at first: they differ in nothing but whose they are.
FirstRows == [of : Lists, id : Ids, val : {1}]

\* The page where it stays: an empty store.
LoadedPage ==
    /\ kind = "store" /\ held = {} /\ ever = {} /\ about = "own"
    /\ items = {} /\ phase = "table" /\ shown = {} /\ status = "table"
    /\ open = {} /\ req = [i \in Slots |-> Free]
    /\ spoiled = FALSE /\ acts = 0

MCInit ==
    /\ focus \in Focuses
    /\ SessionInit /\ FormInit
    /\ IF focus = "pages" THEN PagesInit /\ held \subseteq FirstRows ELSE LoadedPage
    /\ focus # "statuses" => method = CHOOSE m \in HubMethods : TRUE

MCNext ==
    \/ SessionNext /\ Session
    \/ PagesNext /\ Pages
    \/ FormNext /\ Form

\* The fairness of the three modules, where the behaviour is about them.
MCFairness ==
    /\ WF_vars(SignInEnds /\ at' # at /\ Session)
    /\ WF_vars(CompleteSignInEnds /\ Session)
    /\ WF_vars(CompleteSignOutEnds /\ at' # at /\ Session)
    /\ \A i \in Slots : WF_vars(Serve(i) /\ Pages) /\ WF_vars(Answer(i) /\ Pages)
    /\ WF_vars(Render /\ Pages)
    /\ \A n \in Purchases : WF_vars(AttemptEnds(n) /\ Form) /\ WF_vars(Retry(n) /\ Form)

MCSafety == MCInit /\ [][MCNext]_vars

MCSpec == MCInit /\ [][MCNext]_vars /\ MCFairness

(* Deleting a row takes that row from the page and leaves the others:      *)
(* "Do you really wish to delete it?" (Catalog.js, Users.js).              *)
DeletionTakesOneRow ==
    [][\A i \in Busy : DeleteAnswered(i) => items' = {r \in items : r.id # req[i].id}]_vars
================================================================================
