----------------------------- MODULE MCCaptureLoop -----------------------------
EXTENDS CaptureLoop

RawOrder == <<"mjpeg", "h264", "raw">>
================================================================================
