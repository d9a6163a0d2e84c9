----------------------------- MODULE MCMailIndex -----------------------------
EXTENDS MailIndex
CONSTANTS serve, stdio
=============================================================================
