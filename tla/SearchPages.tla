----------------------------- MODULE SearchPages -----------------------------
(***************************************************************************)
(* The two pages that show answers of the server to a search: the traces   *)
(* found, and the dependencies of the services.                            *)
(***************************************************************************)
EXTENDS IndexPage, DependencyPage

(* The index and the dependency page show what was found and chosen: the    *)
(* traces of the filters, the span names of the service, the links and      *)
(* neighbours of what is pointed at.                                        *)
PagesShowAnswers ==
  /\ FiltersSelectTraces /\ TagsNameFilters /\ SpanNamesFollowSelection
  /\ ModalsShowLinks /\ MarksFollowPointer /\ WidthsFollowCalls
=============================================================================
