-------------------------- MODULE MCCatalogWorker --------------------------
(* Two connections, one schema, and refreshes of the connection and of it.  *)
EXTENDS CatalogWorker
MCScopes == {<<>>, <<"s">>}
=============================================================================
