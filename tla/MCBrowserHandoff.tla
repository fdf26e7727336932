-------------------------- MODULE MCBrowserHandoff --------------------------
EXTENDS BrowserHandoff
=============================================================================
