---- MODULE MCExternalAuth ----
EXTENDS ExternalAuth
====
