---------------------------- MODULE LanguagePage ----------------------------
(***************************************************************************)
(* Requests in words from both ends: the server's handlers                 *)
(* (LanguageRequests) and the page of a project that sends them            *)
(* (ProjectPage).  The page is here with records of its own to be answered *)
(* from ("served"): it knows of the server that an identifier is committed *)
(* at most once, whatever comes of it.                                     *)
(***************************************************************************)
EXTENDS LanguageRequests

CONSTANTS Intents,    \* request identifiers of operations
          MaxVisits,  \* bound: how often the page is mounted
          MaxLosses   \* bound: identifiers a call of which goes astray

VARIABLES visit, stored, command, checking, abandoned, language, calls, committed, served, told,
          answered, loose, crossed

P == INSTANCE ProjectPage WITH None <- NoRequest, record <- served

ASSUME PageAssumption == P!IdentifiersDiffer

page == <<visit, stored, command, checking, abandoned, language, calls, committed, served, told,
          answered, loose, crossed>>

LanguageInit == Init /\ P!Init

HandlersMove == Next /\ UNCHANGED page
PageMoves == P!Next /\ UNCHANGED vars

LanguageSpec == LanguageInit /\ [][HandlersMove \/ PageMoves]_<<vars, page>>

-----------------------------------------------------------------------------
(* Properties.                                                             *)

\* What a page of the tab tells its user, and what it keeps of a request that is
\* on its way, is true of the server (ProjectPage).
PageKnowsItsRequests == P!PageKnowsItsRequests
=============================================================================
